---- MODULE Spec2Model ----
(***************************************************************************)
(* A model of the 3D viewer's core (src/components/viewer-controls.tsx,    *)
(* the ModelScene of lines 127-1110): the load effect that installs and    *)
(* releases the active scene object, and the decoders parsePointCloud,     *)
(* parseLasPointCloud, buildPoseGroup and buildPoseLocations; and of the   *)
(* upload state of ModelViewer (src/components/model-viewer.tsx).          *)
(*                                                                         *)
(* Ten specifications share the variables:                                 *)
(*   Spec        the load effect of ModelScene (issue, completion, clear,  *)
(*               unmount);                                                 *)
(*   SpecDecode  one decoder applied to one input: parsePointCloud to a    *)
(*               buffer of BinBuffers, parseLasPointCloud to a buffer of   *)
(*               LasBuffers, buildPoseGroup / buildPoseLocations to a text *)
(*               of PoseTexts or a buffer of PoseBuffers;                  *)
(*   SpecObject  the installed object under rotate(axis), a change of the  *)
(*               scaleMultiplier prop and reset();                         *)
(*   SpecLook    the pointer handlers, the frame callback and reset();     *)
(*   SpecFlight  the key and wheel handlers, the frame callback,           *)
(*               rotate("x") and reset();                                  *)
(*   SpecInstall uploads of meshes, installs, failures and clears with     *)
(*               rotate("x"), scale changes, reset() and key presses;      *)
(*   SpecViewer  ModelViewer's state under uploads of every kind, the      *)
(*               completion of their reads, clears and scale changes;      *)
(*   SpecKeys    the key handlers under keys going down and up;            *)
(*   SpecMove    the frame callback under every combination of movement    *)
(*               flags;                                                    *)
(*   SpecAlign   installs of objects loaded with a scale of their own.     *)
(*                                                                         *)
(* Units of the controls: camera lengths in 1/1000 world unit, angles in   *)
(* microradians, frame time in milliseconds, velocities in 1/1000 unit per *)
(* second, blend factors in 1/1000. The object's box and position are in   *)
(* whole world units and its orientation is a matrix of quarter turns;     *)
(* the rotation bookkeeping is in degrees.                                 *)
(***************************************************************************)
EXTENDS Integers, Sequences, FiniteSets, TLC

VARIABLES
    \* ---- ModelScene (load effect) ----
    mounted,        \* the component is mounted
    loads,          \* per load request: status, its closure's `cancelled`, ...
    issued,         \* number of load requests issued so far
    effectLoad,     \* the request whose cleanup the load effect holds (0: none)
    modelRef,       \* modelRef.current: 0 for null, else the object's id
    model,          \* the `model` React state (what is rendered)
    baseScaleRef,   \* baseScaleRef.current
    disposeCount,   \* per object: number of disposeObject calls on it
    loading,        \* last value delivered through onLoadingChange
    \* ---- decoders ----
    decoder,        \* the decoder the load applies to its input
    buffer,         \* the ArrayBuffer handed to a decoder
    hasHeaderCount, \* parsePointCloud's second argument
    text,           \* the string handed to buildPoseGroup / buildPoseLocations
    parsed,         \* what the decoder returned ([by |-> "none"] before the call)
    \* ---- ModelScene (controls) ----
    yawRef,              \* yawRef.current, in microradians
    pitchRef,            \* pitchRef.current, in microradians
    pointerRef,          \* pointerRef.current: active, lastX, lastY, pointerId
    movementRef,         \* movementRef.current: the six movement flags
    velocityRef,         \* velocityRef.current, in 1/1000 units per second
    verticalVelocityRef, \* verticalVelocityRef.current, in 1/1000 units per second
    cameraPosition,      \* camera.position, in 1/1000 units
    cameraQuaternion,    \* camera.quaternion, by the call that last set it
    rotationRef,         \* rotationRef.current, in degrees per axis
    object3d,            \* the installed object's geometry and transform
    scaleMultiplier,     \* the scaleMultiplier prop
    motions,             \* number of frame ticks and wheel events so far
    \* ---- ModelViewer (src/components/model-viewer.tsx) ----
    uploads,        \* per handleFileUpload call: its primary extension, its position
    uploadCount,    \* number of handleFileUpload calls so far
    modelUrl,       \* the modelUrl state: 0 for null, else the upload it belongs to
    modelExtension, \* the modelExtension state ("none" for null)
    pointCloud,     \* the pointCloud state: its kind and the upload whose file it holds
    poseData,       \* the poseData state: 0 for null, else the upload it belongs to
    poseLocations,  \* the poseLocations state: 0 for null, else the upload
    \* ---- the keyboard ----
    keysHeld        \* the key codes of the keys that are down (SpecKeys only)

sceneVars == <<mounted, loads, issued, effectLoad, modelRef, model,
               baseScaleRef, disposeCount, loading>>
decVars == <<decoder, buffer, hasHeaderCount, text, parsed>>
ctlVars == <<yawRef, pitchRef, pointerRef, movementRef, velocityRef,
             verticalVelocityRef, cameraPosition, cameraQuaternion,
             rotationRef, object3d, scaleMultiplier, motions>>
viewVars == <<uploads, uploadCount, modelUrl, modelExtension, pointCloud,
              poseData, poseLocations>>
keyVars == <<keysHeld>>
vars == <<mounted, loads, issued, effectLoad, modelRef, model,
          baseScaleRef, disposeCount, loading,
          decoder, buffer, hasHeaderCount, text, parsed,
          yawRef, pitchRef, pointerRef, movementRef, velocityRef,
          verticalVelocityRef, cameraPosition, cameraQuaternion,
          rotationRef, object3d, scaleMultiplier, motions,
          uploads, uploadCount, modelUrl, modelExtension, pointCloud,
          poseData, poseLocations, keysHeld>>

Min(a, b) == IF a <= b THEN a ELSE b
Max(a, b) == IF a >= b THEN a ELSE b
Abs(a) == IF a < 0 THEN -a ELSE a

(***************************************************************************)
(* The load effect of ModelScene.                                          *)
(***************************************************************************)

\* How many load requests a behaviour issues.
MaxLoads == 3

LoadIds == 1..MaxLoads

\* Fit-to-view factors alignInitialModel can compute (18 / maxDim), for
\* objects whose largest extent is 18, 9 and 6.
FitScales == {1, 2, 3}

\* The object a load produces carries the load's id.
NoLoad == [status |-> "unissued", cancelled |-> FALSE, prior |-> 0]

\* disposeObject(object): releases the object's geometries and materials.
disposeObject(dc, object) == [dc EXCEPT ![object] = @ + 1]

\* A removeCurrentModel that drops the reference without disposeObject.
removeCurrentModelNoDispose(ref, mdl, base, dc) ==
    IF ref = 0
    THEN [modelRef |-> ref, model |-> mdl, baseScaleRef |-> base, disposeCount |-> dc]
    ELSE [modelRef |-> 0, model |-> 0, baseScaleRef |-> 1, disposeCount |-> dc]

\* removeCurrentModel(): a record of the fields it leaves behind.
removeCurrentModel(ref, mdl, base, dc) ==
    IF ref = 0
    THEN [modelRef |-> ref, model |-> mdl, baseScaleRef |-> base, disposeCount |-> dc]
    ELSE [modelRef |-> 0, model |-> 0, baseScaleRef |-> 1,
          disposeCount |-> disposeObject(dc, ref)]

\* The cleanup the previous run of the load effect returned (lines 1051-1054):
\* it exists only when that run issued a request.
CleanupLoads == IF effectLoad = 0 THEN loads
                ELSE [loads EXCEPT ![effectLoad].cancelled = TRUE]

SceneInit ==
    /\ mounted = TRUE
    /\ loads = [i \in LoadIds |-> NoLoad]
    /\ issued = 0
    /\ effectLoad = 0
    /\ modelRef = 0
    /\ model = 0
    /\ baseScaleRef = 1
    /\ disposeCount = [i \in LoadIds |-> 0]
    /\ loading = FALSE

\* The load effect re-runs with modelUrl and modelExtension set: the previous
\* run's cleanup, then a new request (lines 896-898, 1050).
IssueLoad ==
    /\ mounted
    /\ issued < MaxLoads
    /\ LET id == issued + 1 IN
        /\ loads' = [CleanupLoads EXCEPT
                        ![id] = [status |-> "pending", cancelled |-> FALSE,
                                 prior |-> modelRef]]
        /\ issued' = id
        /\ effectLoad' = id
    /\ loading' = TRUE
    /\ UNCHANGED <<mounted, modelRef, model, baseScaleRef, disposeCount>>

\* The load effect re-runs with modelUrl or modelExtension null (lines 890-894).
ClearScene ==
    /\ mounted
    /\ loads' = CleanupLoads
    /\ effectLoad' = 0
    /\ LET r == removeCurrentModel(modelRef, model, baseScaleRef, disposeCount) IN
        /\ modelRef' = r.modelRef
        /\ model' = r.model
        /\ baseScaleRef' = r.baseScaleRef
        /\ disposeCount' = r.disposeCount
    /\ loading' = FALSE
    /\ UNCHANGED <<mounted, issued>>

\* An install that never looks at `cancelled`.
InstallIgnoringCancelled(id, fit) ==
    LET r == removeCurrentModel(modelRef, model, fit, disposeCount) IN
    /\ modelRef' = id
    /\ model' = id
    /\ baseScaleRef' = r.baseScaleRef
    /\ disposeCount' = r.disposeCount
    /\ loads' = [loads EXCEPT ![id].status = "installed"]
    /\ loading' = IF loads[id].cancelled THEN loading ELSE FALSE

\* loadModel reaches line 1029 with an object (lines 1029-1040, 1043-1047).
InstallOrDiscard(id, fit) ==
    IF loads[id].cancelled
    THEN /\ disposeCount' = disposeObject(disposeCount, id)
         /\ loads' = [loads EXCEPT ![id].status = "discarded"]
         /\ UNCHANGED <<modelRef, model, baseScaleRef, loading>>
    ELSE LET r == removeCurrentModel(modelRef, model, fit, disposeCount) IN
         /\ modelRef' = id
         /\ model' = id
         /\ baseScaleRef' = r.baseScaleRef
         /\ disposeCount' = r.disposeCount
         /\ loads' = [loads EXCEPT ![id].status = "installed"]
         /\ loading' = FALSE

LoadCompletes(id, fit) ==
    /\ loads[id].status = "pending"
    /\ InstallOrDiscard(id, fit)
    /\ UNCHANGED <<mounted, issued, effectLoad>>

\* A failure path that clears the scene before reporting the error.
LoadFailsClearingScene(id) ==
    /\ loads[id].status = "pending"
    /\ loads' = [loads EXCEPT ![id].status = "failed"]
    /\ loading' = IF loads[id].cancelled THEN loading ELSE FALSE
    /\ LET r == removeCurrentModel(modelRef, model, baseScaleRef, disposeCount) IN
        /\ modelRef' = r.modelRef
        /\ model' = r.model
        /\ baseScaleRef' = r.baseScaleRef
        /\ disposeCount' = r.disposeCount
    /\ UNCHANGED <<mounted, issued, effectLoad>>

\* A failure path whose finally reports the end of loading without looking
\* at `cancelled`.
LoadFailsAlwaysReporting(id) ==
    /\ loads[id].status = "pending"
    /\ loads' = [loads EXCEPT ![id].status = "failed"]
    /\ loading' = FALSE
    /\ UNCHANGED <<mounted, issued, effectLoad, modelRef, model, baseScaleRef,
                   disposeCount>>

\* loadModel throws (a decoder returned no result, a fetch or a loader
\* failed): catch and finally (lines 1041-1047).
LoadFails(id) ==
    /\ loads[id].status = "pending"
    /\ loads' = [loads EXCEPT ![id].status = "failed"]
    /\ loading' = IF loads[id].cancelled THEN loading ELSE FALSE
    /\ UNCHANGED <<mounted, issued, effectLoad, modelRef, model, baseScaleRef,
                   disposeCount>>

\* No branch of loadModel matches the extension: object stays null.
LoadYieldsNothing(id) ==
    /\ loads[id].status = "pending"
    /\ loads' = [loads EXCEPT ![id].status = "empty"]
    /\ loading' = IF loads[id].cancelled THEN loading ELSE FALSE
    /\ UNCHANGED <<mounted, issued, effectLoad, modelRef, model, baseScaleRef,
                   disposeCount>>

\* An unmount whose cleanup disposes the active object and keeps the
\* reference to it.
UnmountKeepingRef ==
    /\ mounted
    /\ mounted' = FALSE
    /\ loads' = CleanupLoads
    /\ effectLoad' = 0
    /\ disposeCount' = IF modelRef = 0 THEN disposeCount
                       ELSE disposeObject(disposeCount, modelRef)
    /\ loading' = IF effectLoad = 0 THEN loading ELSE FALSE
    /\ UNCHANGED <<issued, modelRef, model, baseScaleRef>>

\* Unmount: the cleanups of the unmount effect (lines 700-706) and of the
\* load effect (lines 1051-1054).
Unmount ==
    /\ mounted
    /\ mounted' = FALSE
    /\ loads' = CleanupLoads
    /\ effectLoad' = 0
    /\ IF modelRef = 0
       THEN UNCHANGED <<modelRef, disposeCount>>
       ELSE /\ disposeCount' = disposeObject(disposeCount, modelRef)
            /\ modelRef' = 0
    /\ loading' = IF effectLoad = 0 THEN loading ELSE FALSE
    /\ UNCHANGED <<issued, model, baseScaleRef>>

DecIdle ==
    /\ decoder = "none"
    /\ buffer = <<>>
    /\ hasHeaderCount = FALSE
    /\ text = <<>>
    /\ parsed = [by |-> "none"]

\* The controls as ModelScene's hooks create them (lines 572-596): the
\* camera is the Canvas's, no object is installed.
NoMovement ==
    [forward |-> FALSE, backward |-> FALSE, left |-> FALSE, right |-> FALSE,
     up |-> FALSE, down |-> FALSE]

CtlIdle ==
    /\ yawRef = 0
    /\ pitchRef = 0
    /\ pointerRef = [active |-> FALSE, lastX |-> 0, lastY |-> 0, pointerId |-> 0]
    /\ movementRef = NoMovement
    /\ velocityRef = <<0, 0, 0>>
    /\ verticalVelocityRef = 0
    /\ cameraPosition = <<5000, 5000, 5000>>
    /\ cameraQuaternion = [by |-> "identity"]
    /\ rotationRef = [x |-> 0, y |-> 0, z |-> 0]
    /\ object3d = [installed |-> FALSE]
    /\ scaleMultiplier = 1
    /\ motions = 0

\* The bound on handleFileUpload calls.
MaxUploads == 3

UploadIds == 1..MaxUploads

\* The pointCloud state when it is null.
NoPointCloud == [kind |-> "none", upload |-> 0]

\* ModelViewer's state after construction (model-viewer.tsx, lines 58-67).
ViewerIdle ==
    /\ uploads = [id \in UploadIds |-> [ext |-> "none", at |-> "unissued"]]
    /\ uploadCount = 0
    /\ modelUrl = 0
    /\ modelExtension = "none"
    /\ pointCloud = NoPointCloud
    /\ poseData = 0
    /\ poseLocations = 0

Init == SceneInit /\ DecIdle /\ CtlIdle /\ ViewerIdle /\ keysHeld = {}

Next ==
    \/ IssueLoad /\ UNCHANGED <<decVars, ctlVars, viewVars, keyVars>>
    \/ ClearScene /\ UNCHANGED <<decVars, ctlVars, viewVars, keyVars>>
    \/ \E id \in LoadIds, fit \in FitScales : LoadCompletes(id, fit) /\ UNCHANGED <<decVars, ctlVars, viewVars, keyVars>>
    \/ \E id \in LoadIds : LoadFails(id) /\ UNCHANGED <<decVars, ctlVars, viewVars, keyVars>>
    \/ \E id \in LoadIds : LoadYieldsNothing(id) /\ UNCHANGED <<decVars, ctlVars, viewVars, keyVars>>
    \/ Unmount /\ UNCHANGED <<decVars, ctlVars, viewVars, keyVars>>

Spec == Init /\ [][Next]_vars

(***************************************************************************)
(* ArrayBuffer and DataView.  A buffer is the sequence of its bytes; byte  *)
(* offset k is element k + 1.  All reads are little-endian, as every call  *)
(* in the source passes littleEndian = true.                               *)
(***************************************************************************)

byteLength(buf) == Len(buf)

getUint8(buf, off) == buf[off + 1]

getUint16(buf, off) == buf[off + 1] + 256 * buf[off + 2]

\* The largest integer TLC computes with.
IntMax == 2147483647

\* getUint32: exact below 2^31; a value with the top bit set is reported as
\* 2^31 - 1, which exceeds every buffer length the decoders compare it with.
getUint32(buf, off) ==
    IF buf[off + 4] >= 128 THEN IntMax
    ELSE buf[off + 1] + 256 * buf[off + 2] + 65536 * buf[off + 3]
           + 16777216 * buf[off + 4]

\* getInt32: two's complement.
getInt32(buf, off) ==
    buf[off + 1] + 256 * buf[off + 2] + 65536 * buf[off + 3]
      + 16777216 * (IF buf[off + 4] >= 128 THEN buf[off + 4] - 256 ELSE buf[off + 4])

\* Number(getBigUint64(off, true)): exact below 2^31, else reported as
\* 2^31 - 1 (it is only ever compared with record counts below that).
getBigUint64(buf, off) ==
    IF buf[off + 5] # 0 \/ buf[off + 6] # 0 \/ buf[off + 7] # 0 \/ buf[off + 8] # 0
    THEN IntMax
    ELSE getUint32(buf, off)

(***************************************************************************)
(* Numbers.  A JavaScript number the decoders handle is one of             *)
(*   [k |-> "f32", v |-> bits]   the float32 with that bit pattern (bits   *)
(*                               read as an int32),                        *)
(*   [k |-> "milli", v |-> n]    n / 1000 for an int32 n,                  *)
(*   [k |-> "int", v |-> n]      the integer n,                            *)
(*   [k |-> "huge", v |-> 0]     a finite number of magnitude above 2^30,  *)
(*   [k |-> "nonfinite", v |-> 0]  NaN or an infinity.                     *)
(***************************************************************************)

F32(bits) == [k |-> "f32", v |-> bits]
\* An integer interpretation that does not divide by 1000.
MilliUnscaled(n) == [k |-> "int", v |-> n]

\* view.getInt32(...) / 1000: a number of thousandths.
Milli(n) == [k |-> "milli", v |-> n]
IntNum(n) == [k |-> "int", v |-> n]
Huge == [k |-> "huge", v |-> 0]
NonFinite == [k |-> "nonfinite", v |-> 0]

getFloat32(buf, off) == F32(getInt32(buf, off))

\* 2^n for n in 0..30.
RECURSIVE Pow2(_)
Pow2(n) == IF n = 0 THEN 1 ELSE 2 * Pow2(n - 1)

\* getFloat64: IEEE 754 binary64.  Decoded exactly for NaN, the infinities,
\* zero and the integers of magnitude below 2^29; the buffers of the model
\* hold no other double in a header field.
getFloat64(buf, off) ==
    LET b == [i \in 1..8 |-> buf[off + i]]
        negative == b[8] >= 128
        e == (b[8] % 128) * 16 + b[7] \div 16
        m28 == (b[7] % 16) * 16777216 + b[6] * 65536 + b[5] * 256 + b[4]
        lowZero == b[1] = 0 /\ b[2] = 0 /\ b[3] = 0
        exp == e - 1023
    IN  IF e = 2047 THEN NonFinite
        ELSE IF e = 0 THEN IntNum(0)
        ELSE IF exp >= 0 /\ exp <= 28 /\ lowZero /\ m28 % Pow2(28 - exp) = 0
        THEN LET mag == Pow2(exp) + m28 \div Pow2(28 - exp)
             IN  IntNum(IF negative THEN -mag ELSE mag)
        ELSE [k |-> "unmodelled", v |-> 0]

\* The bit pattern of a float32 without its sign bit.
F32Magnitude(bits) == IF bits < 0 THEN (bits + IntMax) + 1 ELSE bits

\* The float32 bit pattern of MAX_POINT_MAGNITUDE, 1e7 = 0x4B189680.
F32_MAX_POINT_MAGNITUDE == 1259902592

MAX_POINT_MAGNITUDE == 10000000

\* Number.isFinite(x): a float32 is finite unless its exponent field is 255.
isFinite(x) ==
    CASE x.k = "f32" -> F32Magnitude(x.v) \div 8388608 # 255
      [] x.k = "milli" -> TRUE
      [] x.k = "int" -> TRUE
      [] x.k = "huge" -> TRUE
      [] x.k = "nonfinite" -> FALSE

\* Math.abs(x) > MAX_POINT_MAGNITUDE.  Positive float32 values are ordered as
\* their bit patterns; a NaN compares false.
absExceedsMax(x) ==
    CASE x.k = "f32" -> /\ F32Magnitude(x.v) > F32_MAX_POINT_MAGNITUDE
                        /\ F32Magnitude(x.v) <= 2139095040
      [] x.k = "milli" ->
            IF x.v >= 0
            THEN \/ x.v \div 1000 > MAX_POINT_MAGNITUDE
                 \/ x.v \div 1000 = MAX_POINT_MAGNITUDE /\ x.v % 1000 # 0
            ELSE (-(x.v + 1)) \div 1000 >= MAX_POINT_MAGNITUDE
      [] x.k = "int" -> x.v > MAX_POINT_MAGNITUDE \/ x.v < -MAX_POINT_MAGNITUDE
      [] x.k = "huge" -> TRUE
      [] x.k = "nonfinite" -> FALSE

\* The guard of lines 324-331 and 417-424 negated: the record is kept.
validPoint(x, y, z) ==
    ~ ( \/ ~isFinite(x) \/ ~isFinite(y) \/ ~isFinite(z)
        \/ absExceedsMax(x) \/ absExceedsMax(y) \/ absExceedsMax(z) )

\* new Float32Array(n): n zeros.
Float32Array(n) == [i \in 1..n |-> F32(0)]

\* positions.slice(0, n)
slice0(arr, n) == SubSeq(arr, 1, n)

(***************************************************************************)
(* parsePointCloud (lines 237-357).                                        *)
(***************************************************************************)

\* The point budget.  The source sets 5000000; the model scales it down so
\* that buffers of a few records are downsampled.
MAX_POINTS == 2

\* The number of records the format probe samples.  The source uses 1000
\* (line 274); scaled down with the buffers.
PROBE_SAMPLES == 3

binStride == 24

\* A header detection that accepts every count that fits in the buffer,
\* however many bytes follow the records it declares.
readHeaderCountAnyLength(buf, hasHdr) ==
    LET totalBytes == byteLength(buf)
        candidate == getUint32(buf, 0)
    IN  IF /\ hasHdr
           /\ totalBytes >= 4
           /\ candidate > 0
           /\ candidate <= totalBytes \div binStride
           /\ 4 + candidate * binStride <= totalBytes
        THEN [headerOffset |-> 4, declaredCount |-> candidate]
        ELSE [headerOffset |-> 0, declaredCount |-> 0]

\* Lines 245-259: headerOffset and declaredCount (0 stands for null).
readHeaderCount(buf, hasHdr) ==
    LET totalBytes == byteLength(buf)
        candidate == getUint32(buf, 0)
        expectedBytes == 4 + candidate * binStride
    IN  IF /\ hasHdr
           /\ totalBytes >= 4
           /\ candidate > 0
           \* implied by expectedBytes <= totalBytes; keeps the product small
           /\ candidate <= totalBytes \div binStride
           /\ expectedBytes <= totalBytes
           /\ Abs(expectedBytes - totalBytes) < binStride
        THEN [headerOffset |-> 4, declaredCount |-> candidate]
        ELSE [headerOffset |-> 0, declaredCount |-> 0]

\* A step that is never below 2: the budget applied where it is not needed.
downsampleStepAlways(count) == Max(2, count \div MAX_POINTS)

\* Lines 271 and 398: step = Math.max(1, Math.floor(count / MAX_POINTS)).
downsampleStep(count) == Max(1, count \div MAX_POINTS)

\* Lines 272 and 399: sampledCount.
sampledCountOf(count, step) == Max(1, count \div step)

\* A choice of interpretation that lets a tie go to the integers.
useIntOnTie(intValid, floatValid) == intValid >= floatValid

\* Line 310.
useIntOf(intValid, floatValid) == intValid > floatValid

\* Lines 280-308: the probe loop from record i on.  lastIndex is the index
\* of the record the loop examined last (-1: none yet).
RECURSIVE probeLoop(_, _, _, _, _, _, _)
probeLoop(buf, headerOffset, recordCount, probeSamples, probeStride, i, acc) ==
    IF ~(i < recordCount /\ acc.probeIterations < probeSamples) THEN acc
    ELSE LET base == headerOffset + i * binStride
             xf == getFloat32(buf, base)
             yf == getFloat32(buf, base + 4)
             zf == getFloat32(buf, base + 8)
             xi == Milli(getInt32(buf, base))
             yi == Milli(getInt32(buf, base + 4))
             zi == Milli(getInt32(buf, base + 8))
             validFloat == validPoint(xf, yf, zf)
             validInt == validPoint(xi, yi, zi)
         IN  probeLoop(buf, headerOffset, recordCount, probeSamples, probeStride,
                       i + probeStride,
                       [floatValid |-> acc.floatValid + (IF validFloat THEN 1 ELSE 0),
                        intValid |-> acc.intValid + (IF validInt THEN 1 ELSE 0),
                        probeIterations |-> acc.probeIterations + 1,
                        lastIndex |-> i])

\* Lines 316-322: the three coordinates of the record at base.
binPoint(buf, base, useInt) ==
    IF useInt
    THEN <<Milli(getInt32(buf, base)), Milli(getInt32(buf, base + 4)),
           Milli(getInt32(buf, base + 8))>>
    ELSE <<getFloat32(buf, base), getFloat32(buf, base + 4),
           getFloat32(buf, base + 8)>>

\* A full pass that stops at the first record that fails the check.
RECURSIVE fullPassAbortingOnInvalid(_, _, _, _, _, _, _, _)
fullPassAbortingOnInvalid(buf, headerOffset, recordCount, step, sampledCount, useInt, i, st) ==
    IF ~(i < recordCount) THEN st
    ELSE LET pt == binPoint(buf, headerOffset + i * binStride, useInt)
         IN  IF ~validPoint(pt[1], pt[2], pt[3]) THEN st
             ELSE LET w == st.writeIndex
                      st2 == [writeIndex |-> w + 1,
                              positions |-> [st.positions EXCEPT
                                                ![w * 3 + 1] = pt[1],
                                                ![w * 3 + 2] = pt[2],
                                                ![w * 3 + 3] = pt[3]]]
                  IN  IF st2.writeIndex >= sampledCount THEN st2
                      ELSE fullPassAbortingOnInvalid(buf, headerOffset, recordCount, step,
                                                     sampledCount, useInt, i + step, st2)

\* Lines 314-340: the full pass from record i on.
RECURSIVE fullPass(_, _, _, _, _, _, _, _)
fullPass(buf, headerOffset, recordCount, step, sampledCount, useInt, i, st) ==
    IF ~(i < recordCount) THEN st
    ELSE LET pt == binPoint(buf, headerOffset + i * binStride, useInt)
         IN  IF ~validPoint(pt[1], pt[2], pt[3])
             THEN fullPass(buf, headerOffset, recordCount, step, sampledCount,
                           useInt, i + step, st)
             ELSE LET w == st.writeIndex
                      st2 == [writeIndex |-> w + 1,
                              positions |-> [st.positions EXCEPT
                                                ![w * 3 + 1] = pt[1],
                                                ![w * 3 + 2] = pt[2],
                                                ![w * 3 + 3] = pt[3]]]
                  IN  IF st2.writeIndex >= sampledCount THEN st2
                      ELSE fullPass(buf, headerOffset, recordCount, step,
                                    sampledCount, useInt, i + step, st2)

\* The decoder's `return null`.
NoResult(name) == [by |-> name, ok |-> FALSE]

\* A result assembly that returns the pre-sized buffer untrimmed and returns
\* it even when nothing was accepted.
binResultUntrimmed(st, sampledCount, meta) ==
    [by |-> "parsePointCloud", ok |-> TRUE,
     positions |-> st.positions,
     hasColors |-> FALSE, colors |-> <<>>,
     metadata |-> [meta EXCEPT !.acceptedPoints = st.writeIndex]]

\* Lines 342-356.
binResult(st, sampledCount, meta) ==
    IF st.writeIndex = 0 THEN NoResult("parsePointCloud")
    ELSE [by |-> "parsePointCloud", ok |-> TRUE,
          positions |-> IF st.writeIndex = sampledCount THEN st.positions
                        ELSE slice0(st.positions, st.writeIndex * 3),
          hasColors |-> FALSE, colors |-> <<>>,
          metadata |-> [meta EXCEPT !.acceptedPoints = st.writeIndex]]

parsePointCloud(buf, hasHdr) ==
    LET totalBytes == byteLength(buf)
        hdr == readHeaderCount(buf, hasHdr)
        headerOffset == hdr.headerOffset
        declaredCount == hdr.declaredCount
        availableBytes == totalBytes - headerOffset
        maxPossible == availableBytes \div binStride
        recordCount == IF declaredCount # 0 THEN Min(declaredCount, maxPossible)
                       ELSE maxPossible
        step == downsampleStep(recordCount)
        sampledCount == sampledCountOf(recordCount, step)
        probeSamples == Min(PROBE_SAMPLES, recordCount)
        probeStride == Max(1, recordCount \div probeSamples)
        probe == probeLoop(buf, headerOffset, recordCount, probeSamples, probeStride, 0,
                           [floatValid |-> 0, intValid |-> 0, probeIterations |-> 0,
                            lastIndex |-> -1])
        useInt == useIntOf(probe.intValid, probe.floatValid)
        st == fullPass(buf, headerOffset, recordCount, step, sampledCount, useInt, 0,
                       [writeIndex |-> 0, positions |-> Float32Array(sampledCount * 3)])
    IN  IF availableBytes < binStride THEN NoResult("parsePointCloud")
        ELSE IF maxPossible <= 0 THEN NoResult("parsePointCloud")
        ELSE binResult(st, sampledCount,
                       [headerOffset |-> headerOffset,
                        declaredCount |-> declaredCount,
                        recordCount |-> recordCount,
                        downsampleStep |-> step,
                        probeFloatHits |-> probe.floatValid,
                        probeIntHits |-> probe.intValid,
                        usedIntegerMode |-> useInt,
                        acceptedPoints |-> 0])

(***************************************************************************)
(* parseLasPointCloud (lines 359-465).                                     *)
(***************************************************************************)

\* "LASF"
LASF == <<76, 65, 83, 70>>

\* The smallest buffer parseLasPointCloud accepts (line 360).
LAS_MIN_HEADER == 227

\* The smallest buffer whose extended point count is read (line 377).
LAS_EXT_HEADER == 255

\* 1 / colorNorm (line 405): a colour channel c is the fraction c / 65535.
COLOR_ONE == 65535

\* value * scale + offset (lines 414-416) for an int32 value and two doubles.
\* A result beyond TLC's integers is a finite number above the magnitude
\* bound (offsets are below 2^29).
lasCoord(value, scale, offset) ==
    IF scale.k = "nonfinite" \/ offset.k = "nonfinite" THEN NonFinite
    ELSE LET s == Abs(scale.v)
             o == Abs(offset.v)
         IN  IF s # 0 /\ (value > IntMax \div s \/ value < -(IntMax \div s)) THEN Huge
             ELSE LET p == value * scale.v
                  IN  IF p > IntMax - o \/ p < -(IntMax - o) THEN Huge
                      ELSE IntNum(p + offset.v)

\* Lines 433-438: a colour channel, Math.min(1, u16 * colorNorm), as a
\* numerator over 65535.
lasChannel(buf, off) == Min(COLOR_ONE, getUint16(buf, off))

\* Line 366.
lasPointFormat(buf) == getUint8(buf, 104) % 16

\* Line 368.
lasHeaderRejected(buf, stride, offsetToData) ==
    stride = 0 \/ byteLength(buf) < offsetToData + stride

\* A point count that takes the extended count whenever it is positive,
\* whatever the legacy count.
lasPointCountPreferringExtended(buf) ==
    LET legacy == getUint32(buf, 107)
    IN  IF byteLength(buf) >= LAS_EXT_HEADER
        THEN LET extended == getBigUint64(buf, 247)
             IN  IF extended > 0 THEN extended ELSE legacy
        ELSE legacy

\* Lines 370-383: the point count.
lasPointCount(buf) ==
    LET legacy == getUint32(buf, 107)
    IN  IF legacy = 0 /\ byteLength(buf) >= LAS_EXT_HEADER
        THEN LET extended == getBigUint64(buf, 247)
             IN  IF extended > 0 THEN extended ELSE legacy
        ELSE legacy

\* A loop that stores a record's colour at its record index rather than at
\* the write index.
RECURSIVE lasLoopColorByRecord(_, _, _, _, _, _, _, _, _)
lasLoopColorByRecord(buf, hdr, totalRecords, step, sampledCount, hasColor, colorOffset, i, st) ==
    IF ~(i < totalRecords) THEN st
    ELSE LET base == hdr.offsetToData + i * hdr.stride
         IN  IF base + 12 > byteLength(buf) THEN st
             ELSE LET x == lasCoord(getInt32(buf, base), hdr.scaleX, hdr.offsetX)
                      y == lasCoord(getInt32(buf, base + 4), hdr.scaleY, hdr.offsetY)
                      z == lasCoord(getInt32(buf, base + 8), hdr.scaleZ, hdr.offsetZ)
                  IN  IF ~validPoint(x, y, z)
                      THEN lasLoopColorByRecord(buf, hdr, totalRecords, step, sampledCount,
                                                hasColor, colorOffset, i + step, st)
                      ELSE LET w == st.writeIndex
                               c == i \div step
                               positions == [st.positions EXCEPT ![w * 3 + 1] = x,
                                                                  ![w * 3 + 2] = y,
                                                                  ![w * 3 + 3] = z]
                               colors ==
                                   IF hasColor /\ c < sampledCount
                                      /\ base + colorOffset + 6 <= byteLength(buf)
                                   THEN [st.colors EXCEPT
                                           ![c * 3 + 1] = lasChannel(buf, base + colorOffset),
                                           ![c * 3 + 2] = lasChannel(buf, base + colorOffset + 2),
                                           ![c * 3 + 3] = lasChannel(buf, base + colorOffset + 4)]
                                   ELSE st.colors
                               st2 == [writeIndex |-> w + 1, positions |-> positions,
                                       colors |-> colors]
                           IN  IF st2.writeIndex >= sampledCount THEN st2
                               ELSE lasLoopColorByRecord(buf, hdr, totalRecords, step,
                                                         sampledCount, hasColor, colorOffset,
                                                         i + step, st2)

\* Lines 408-443: the record loop from record i on.
RECURSIVE lasLoop(_, _, _, _, _, _, _, _, _)
lasLoop(buf, hdr, totalRecords, step, sampledCount, hasColor, colorOffset, i, st) ==
    IF ~(i < totalRecords) THEN st
    ELSE LET base == hdr.offsetToData + i * hdr.stride
         IN  IF base + 12 > byteLength(buf) THEN st
             ELSE LET x == lasCoord(getInt32(buf, base), hdr.scaleX, hdr.offsetX)
                      y == lasCoord(getInt32(buf, base + 4), hdr.scaleY, hdr.offsetY)
                      z == lasCoord(getInt32(buf, base + 8), hdr.scaleZ, hdr.offsetZ)
                  IN  IF ~validPoint(x, y, z)
                      THEN lasLoop(buf, hdr, totalRecords, step, sampledCount,
                                   hasColor, colorOffset, i + step, st)
                      ELSE LET w == st.writeIndex
                               positions == [st.positions EXCEPT ![w * 3 + 1] = x,
                                                                  ![w * 3 + 2] = y,
                                                                  ![w * 3 + 3] = z]
                               colors ==
                                   IF hasColor /\ base + colorOffset + 6 <= byteLength(buf)
                                   THEN [st.colors EXCEPT
                                           ![w * 3 + 1] = lasChannel(buf, base + colorOffset),
                                           ![w * 3 + 2] = lasChannel(buf, base + colorOffset + 2),
                                           ![w * 3 + 3] = lasChannel(buf, base + colorOffset + 4)]
                                   ELSE st.colors
                               st2 == [writeIndex |-> w + 1, positions |-> positions,
                                       colors |-> colors]
                           IN  IF st2.writeIndex >= sampledCount THEN st2
                               ELSE lasLoop(buf, hdr, totalRecords, step, sampledCount,
                                            hasColor, colorOffset, i + step, st2)

\* Lines 445-464.
lasResult(st, sampledCount, hasColor, meta) ==
    IF st.writeIndex = 0 THEN NoResult("parseLasPointCloud")
    ELSE [by |-> "parseLasPointCloud", ok |-> TRUE,
          positions |-> IF st.writeIndex = sampledCount THEN st.positions
                        ELSE slice0(st.positions, st.writeIndex * 3),
          hasColors |-> hasColor,
          colors |-> IF hasColor
                     THEN IF st.writeIndex = sampledCount THEN st.colors
                          ELSE slice0(st.colors, st.writeIndex * 3)
                     ELSE <<>>,
          metadata |-> [meta EXCEPT !.acceptedPoints = st.writeIndex]]

\* Lines 365-464, once the length and the signature are accepted.
parseLasBody(buf) ==
    LET stride == getUint16(buf, 105)
        pointFormat == lasPointFormat(buf)
        offsetToData == getUint32(buf, 96)
        pointCount == lasPointCount(buf)
        hdr == [stride |-> stride, offsetToData |-> offsetToData,
                scaleX |-> getFloat64(buf, 131), scaleY |-> getFloat64(buf, 139),
                scaleZ |-> getFloat64(buf, 147), offsetX |-> getFloat64(buf, 155),
                offsetY |-> getFloat64(buf, 163), offsetZ |-> getFloat64(buf, 171)]
        availableRecords == (byteLength(buf) - offsetToData) \div stride
        totalRecords == Min(pointCount, availableRecords)
        step == downsampleStep(totalRecords)
        sampledCount == sampledCountOf(totalRecords, step)
        hasColor == pointFormat = 2 \/ pointFormat = 3
        colorOffset == IF pointFormat = 3 THEN 28 ELSE 20
        st == lasLoop(buf, hdr, totalRecords, step, sampledCount, hasColor, colorOffset, 0,
                      [writeIndex |-> 0,
                       positions |-> Float32Array(sampledCount * 3),
                       colors |-> IF hasColor THEN [k \in 1..(sampledCount * 3) |-> 0]
                                  ELSE <<>>])
    IN  IF lasHeaderRejected(buf, stride, offsetToData) THEN NoResult("parseLasPointCloud")
        ELSE IF pointCount <= 0 THEN NoResult("parseLasPointCloud")
        ELSE IF totalRecords <= 0 THEN NoResult("parseLasPointCloud")
        ELSE lasResult(st, sampledCount, hasColor,
                       [headerOffset |-> offsetToData,
                        declaredCount |-> pointCount,
                        recordCount |-> totalRecords,
                        downsampleStep |-> step,
                        probeFloatHits |-> 0,
                        probeIntHits |-> 0,
                        usedIntegerMode |-> FALSE,
                        acceptedPoints |-> 0])

\* A length check against the last header byte the decoder reads (the
\* z offset ends at 179) instead of the size of the header block.
parseLasShortLengthCheck(buf) ==
    IF byteLength(buf) < 179 THEN NoResult("parseLasPointCloud")
    ELSE IF SubSeq(buf, 1, 4) # LASF THEN NoResult("parseLasPointCloud")
    ELSE parseLasBody(buf)

\* A decoder that does not look at the signature.
parseLasAnySignature(buf) ==
    IF byteLength(buf) < LAS_MIN_HEADER THEN NoResult("parseLasPointCloud")
    ELSE parseLasBody(buf)

parseLasPointCloud(buf) ==
    IF byteLength(buf) < LAS_MIN_HEADER THEN NoResult("parseLasPointCloud")
    ELSE IF SubSeq(buf, 1, 4) # LASF THEN NoResult("parseLasPointCloud")
    ELSE parseLasBody(buf)

(***************************************************************************)
(* buildPoseGroup (lines 467-524) and buildPoseLocations (lines 526-553).  *)
(* A text is the sequence of its whitespace-separated tokens; a token is   *)
(* [k |-> "num", v |-> n], a decimal integer, or [k |-> "junk", v |-> 0],  *)
(* which parseFloat turns into NaN, or [k |-> "inf", v |-> 0], the word    *)
(* Infinity.                                                               *)
(***************************************************************************)

\* The pose budgets.  The source sets 3000 and 250000 (lines 218-219); the
\* model scales them down with the inputs.
MAX_POSES == 2
MAX_POSE_LOC_POINTS == 2

poseValuesPerRecord == 13
poseStrideBytes == 52
poseLocValuesPerRecord == 4

\* parseFloat(val)
parseFloat(tok) == IF tok.k = "num" THEN IntNum(tok.v) ELSE NonFinite

\* text.trim().split(/\s+/).map(parseFloat): the empty text splits into one
\* empty token.
tokensOf(txt) ==
    IF txt = <<>> THEN <<NonFinite>>
    ELSE [i \in 1..Len(txt) |-> parseFloat(txt[i])]

\* A text branch that wants more than one record's worth of tokens
\* (tokens.length <= 13 in place of tokens.length < 13).
poseTextRecordsStrict(txt) ==
    LET tokens == tokensOf(txt)
        total == Len(tokens) \div poseValuesPerRecord
    IN  [ok |-> ~(Len(tokens) <= poseValuesPerRecord),
         records |-> [i \in 1..total |->
                        SubSeq(tokens, (i - 1) * poseValuesPerRecord + 1,
                               (i - 1) * poseValuesPerRecord + poseValuesPerRecord)]]

\* Lines 470-478: the records of a text.
poseTextRecords(txt) ==
    LET tokens == tokensOf(txt)
        total == Len(tokens) \div poseValuesPerRecord
    IN  [ok |-> ~(Len(tokens) < poseValuesPerRecord),
         records |-> [i \in 1..total |->
                        SubSeq(tokens, (i - 1) * poseValuesPerRecord + 1,
                               (i - 1) * poseValuesPerRecord + poseValuesPerRecord)]]

\* Lines 480-492: the records of a binary buffer.
poseBinaryRecords(buf) ==
    LET total == byteLength(buf) \div poseStrideBytes
    IN  [ok |-> ~(byteLength(buf) < poseStrideBytes) /\ ~(total <= 0),
         records |-> [i \in 1..total |->
                        [j \in 1..poseValuesPerRecord |->
                            getFloat32(buf, (i - 1) * poseStrideBytes + (j - 1) * 4)]]]

\* Lines 498-522: one marker per retained record, from record i (0-based) on;
\* a marker is the 12 matrix values of its record.
RECURSIVE poseMarkers(_, _, _)
poseMarkers(records, step, i) ==
    IF ~(i < Len(records)) THEN <<>>
    ELSE <<SubSeq(records[i + 1], 2, 13)>> \o poseMarkers(records, step, i + step)

\* Lines 495-523.
poseGroupOf(rr) ==
    IF ~rr.ok THEN NoResult("buildPoseGroup")
    ELSE IF Len(rr.records) = 0 THEN NoResult("buildPoseGroup")
    ELSE LET step == Max(1, Len(rr.records) \div MAX_POSES)
         IN  [by |-> "buildPoseGroup", ok |-> TRUE,
              children |-> poseMarkers(rr.records, step, 0)]

buildPoseGroupText(txt) == poseGroupOf(poseTextRecords(txt))

buildPoseGroupBinary(buf) == poseGroupOf(poseBinaryRecords(buf))

\* A loop that also wants the fourth value of a record to be finite.
RECURSIVE poseLocLoopCheckingFourth(_, _, _, _, _, _)
poseLocLoopCheckingFourth(tokens, total, step, sampledCount, i, st) ==
    IF ~(i < total) THEN st
    ELSE LET base == i * poseLocValuesPerRecord
             x == tokens[base + 1]
             y == tokens[base + 2]
             z == tokens[base + 3]
         IN  IF ~isFinite(x) \/ ~isFinite(y) \/ ~isFinite(z)
                \/ ~isFinite(tokens[base + 4])
             THEN [st EXCEPT !.ok = FALSE]
             ELSE LET w == st.writeIndex
                      st2 == [ok |-> TRUE, writeIndex |-> w + 1,
                              positions |-> [st.positions EXCEPT ![w * 3 + 1] = x,
                                                                 ![w * 3 + 2] = y,
                                                                 ![w * 3 + 3] = z]]
                  IN  IF st2.writeIndex >= sampledCount THEN st2
                      ELSE poseLocLoopCheckingFourth(tokens, total, step,
                                                     sampledCount, i + step, st2)

\* Lines 538-551: the loop from record i on; ok is FALSE after `return null`.
RECURSIVE poseLocLoop(_, _, _, _, _, _)
poseLocLoop(tokens, total, step, sampledCount, i, st) ==
    IF ~(i < total) THEN st
    ELSE LET base == i * poseLocValuesPerRecord
             x == tokens[base + 1]
             y == tokens[base + 2]
             z == tokens[base + 3]
         IN  IF ~isFinite(x) \/ ~isFinite(y) \/ ~isFinite(z)
             THEN [st EXCEPT !.ok = FALSE]
             ELSE LET w == st.writeIndex
                      st2 == [ok |-> TRUE, writeIndex |-> w + 1,
                              positions |-> [st.positions EXCEPT ![w * 3 + 1] = x,
                                                                 ![w * 3 + 2] = y,
                                                                 ![w * 3 + 3] = z]]
                  IN  IF st2.writeIndex >= sampledCount THEN st2
                      ELSE poseLocLoop(tokens, total, step, sampledCount, i + step, st2)

buildPoseLocations(txt) ==
    LET tokens == tokensOf(txt)
        total == Len(tokens) \div poseLocValuesPerRecord
        step == Max(1, total \div MAX_POSE_LOC_POINTS)
        sampledCount == Max(1, total \div step)
        st == poseLocLoop(tokens, total, step, sampledCount, 0,
                          [ok |-> TRUE, writeIndex |-> 0,
                           positions |-> Float32Array(sampledCount * 3)])
    IN  IF Len(tokens) < poseLocValuesPerRecord THEN NoResult("buildPoseLocations")
        ELSE IF total <= 0 THEN NoResult("buildPoseLocations")
        ELSE IF ~st.ok THEN NoResult("buildPoseLocations")
        ELSE [by |-> "buildPoseLocations", ok |-> TRUE, positions |-> st.positions]

(***************************************************************************)
(* The buffers parsePointCloud is applied to.                              *)
(***************************************************************************)

\* The four bytes of an int32, little-endian.
LE32(w) ==
    LET low == IF w < 0 THEN (w + IntMax) + 1 ELSE w
    IN  <<low % 256, (low \div 256) % 256, (low \div 65536) % 256,
          (low \div 16777216) + (IF w < 0 THEN 128 ELSE 0)>>

Zeros(n) == [i \in 1..n |-> 0]

RECURSIVE Concat(_)
Concat(seqs) == IF seqs = <<>> THEN <<>> ELSE Head(seqs) \o Concat(Tail(seqs))

\* The coordinate fields of a record, by kind:
\*   "plain"  (1.0, 0.0, -2.0): valid as floats and as integers;
\*   "inf"    (0.0, +Infinity, 0.0): not finite as floats;
\*   "edge"   (1 as an integer, 1e7, 0.0): valid as floats, on the magnitude
\*            bound; its first word is a plausible record count;
\*   "over"   (0.0, 0.0, just above 1e7): too large as floats.
BinRecordKinds == {"plain", "inf", "edge", "over"}

\* The three coordinate words of a record, as float32 bit patterns (int32):
\* 1065353216 is 1.0, -1073741824 is -2.0, 2139095040 is +Infinity.

binRecordWords(kind) ==
    CASE kind = "plain" -> <<1065353216, 0, -1073741824>>
      [] kind = "inf" -> <<0, 2139095040, 0>>
      [] kind = "edge" -> <<1, F32_MAX_POINT_MAGNITUDE, 0>>
      [] OTHER -> <<0, 0, F32_MAX_POINT_MAGNITUDE + 1>>

\* One 24-byte record: three coordinate fields and 12 reserved bytes.
binRecordBytes(kind) ==
    LET w == binRecordWords(kind)
    IN  LE32(w[1]) \o LE32(w[2]) \o LE32(w[3]) \o Zeros(12)

\* The most records a generated buffer holds.
MaxBinRecords == 5

\* Sequences over S of length 0..n.
RECURSIVE SeqsUpTo(_, _)
SeqsUpTo(S, n) ==
    IF n = 0 THEN {<<>>}
    ELSE LET shorter == SeqsUpTo(S, n - 1)
         IN  shorter \cup {Append(q, x) : q \in {r \in shorter : Len(r) = n - 1}, x \in S}

\* The leading word of a buffer: none, the number of records that follow, one
\* less, one more, or -Infinity (a u32 above 2^31).
BinHeaderKinds == {"none", "count", "less", "more", "neg"}

binHeaderBytes(hk, n) ==
    CASE hk = "none" -> <<>>
      [] hk = "count" -> LE32(n)
      [] hk = "less" -> LE32(Max(0, n - 1))
      [] hk = "more" -> LE32(n + 1)
      [] OTHER -> LE32(-8388608)

\* Trailing bytes after the last whole record: every length below a stride
\* for a buffer without records, a few for the others.
BinTails(n) == IF n = 0 THEN 0..(binStride - 1) ELSE {0, 3, 20}

\* The buffers of MaxBinRecords records hold plain records and records that
\* are not finite as floats; the shorter ones hold records of every kind.
BinFullSeqs == [1..MaxBinRecords -> {"plain", "inf"}]

\* The length of the longer buffers: enough records for a step of 3 and a
\* probe stride of 2, so that the full pass visits a record the probe did
\* not examine.
LongBinRecords == 7

\* The longer buffers hold plain records, but for at most one record that
\* is not valid as floats.
BinLongSeqs ==
    { [i \in 1..LongBinRecords |-> IF i = j THEN kind ELSE "plain"] :
        j \in 1..LongBinRecords, kind \in {"plain", "inf", "over"} }

BinBuffers ==
    UNION { { binHeaderBytes(hk, Len(recs))
                \o Concat([i \in 1..Len(recs) |-> binRecordBytes(recs[i])])
                \o Zeros(tail) : tail \in BinTails(Len(recs)) } :
            hk \in BinHeaderKinds,
            recs \in SeqsUpTo(BinRecordKinds, MaxBinRecords - 1)
                       \cup BinFullSeqs \cup BinLongSeqs }

(***************************************************************************)
(* The buffers parseLasPointCloud is applied to.                           *)
(***************************************************************************)

LE16(w) == <<w % 256, w \div 256>>

\* The eight bytes of the doubles the generated headers hold.
F64Bytes(name) ==
    CASE name = "one" -> <<0, 0, 0, 0, 0, 0, 240, 63>>
      [] name = "thousand" -> <<0, 0, 0, 0, 0, 64, 143, 64>>
      [] name = "minus seven" -> <<0, 0, 0, 0, 0, 0, 28, 192>>
      [] name = "infinity" -> <<0, 0, 0, 0, 0, 0, 240, 127>>
      [] OTHER -> Zeros(8)

\* The most point records a generated LAS buffer holds.
MaxLasRecords == 4

\* The record length the LAS standard gives a point format (formats 0, 2, 3).
lasTrueStride(fmt) == IF fmt % 16 = 3 THEN 34 ELSE IF fmt % 16 = 2 THEN 26 ELSE 20

lasTrueColorOffset(fmt) == IF fmt % 16 = 3 THEN 28 ELSE 20

\* Record i of a file (1-based).  "ok": x = 1000 * i; "far": x = 20000000,
\* beyond the magnitude bound for every scale >= 1.  y = -i, z = 0; the bytes
\* up to the colour are 255; the colour is (i, 65535, 256 * i).
lasRecordBytes(kind, i, fmt) ==
    LET len == lasTrueStride(fmt)
        xyz == LE32(IF kind = "ok" THEN 1000 * i ELSE 20000000) \o LE32(-i) \o LE32(0)
        rgb == LE16(i) \o LE16(65535) \o LE16(256 * i)
        co == lasTrueColorOffset(fmt)
    IN  [j \in 1..len |->
            IF j <= 12 THEN xyz[j]
            ELSE IF len > 20 /\ j > co THEN rgb[j - co]
            ELSE 255]

\* The public header block: signature, offset to point data (96), point
\* format (104), record length (105), legacy point count (107), scales (131,
\* 139, 147), offsets (155, 163, 171), extended point count (247).
lasHeaderBytes(p) ==
    LET sig == IF p.sigOk THEN LASF ELSE <<76, 65, 83, 88>>
        off == LE32(p.offsetField)
        str == LE16(p.strideField)
        cnt == LE32(p.legacyCount)
        ext == LE32(p.extCount) \o Zeros(4)
        scl == F64Bytes(p.scale)
        ofx == F64Bytes("minus seven")
    IN  [k \in 1..p.hdrLen |->
            LET o == k - 1
            IN  IF o < 4 THEN sig[o + 1]
                ELSE IF o >= 96 /\ o < 100 THEN off[o - 95]
                ELSE IF o = 104 THEN p.fmt
                ELSE IF o >= 105 /\ o < 107 THEN str[o - 104]
                ELSE IF o >= 107 /\ o < 111 THEN cnt[o - 106]
                ELSE IF o >= 131 /\ o < 155 THEN scl[((o - 131) % 8) + 1]
                ELSE IF o >= 155 /\ o < 163 THEN ofx[o - 154]
                ELSE IF o >= 247 /\ o < 255 THEN ext[o - 246]
                ELSE 0]

lasFileBytes(p) ==
    lasHeaderBytes(p)
      \o Concat([i \in 1..Len(p.recs) |-> lasRecordBytes(p.recs[i], i, p.fmt)])
      \o Zeros(p.tail)

LasRecordSeqs == SeqsUpTo({"ok", "far"}, MaxLasRecords)

lasStrideField(mode, fmt) ==
    CASE mode = "true" -> lasTrueStride(fmt)
      [] mode = "cut" -> lasTrueStride(fmt) - 4
      [] mode = "short" -> 8
      [] mode = "zero" -> 0
      [] OTHER -> 60000

lasOffsetField(mode, hdrLen) ==
    CASE mode = "true" -> hdrLen
      [] mode = "zero" -> 0
      [] OTHER -> 16777216

lasCountField(mode, n) ==
    CASE mode = "n" -> n
      [] mode = "zero" -> 0
      [] OTHER -> n + 2

\* Files whose header passes the checks of lines 360-368.
LasWellFormed ==
    { lasFileBytes([sigOk |-> TRUE, fmt |-> fmt, hdrLen |-> he[1],
                    offsetField |-> he[1],
                    strideField |-> lasStrideField(sm, fmt),
                    legacyCount |-> lasCountField(cm, Len(recs)),
                    extCount |-> IF he[2] THEN Len(recs) ELSE 0,
                    scale |-> sc, recs |-> recs, tail |-> tail]) :
      fmt \in {0, 2, 3, 131}, sm \in {"true", "cut", "short"},
      cm \in {"n", "zero", "more"},
      he \in {<<227, FALSE>>, <<255, FALSE>>, <<255, TRUE>>},
      sc \in {"one", "thousand", "infinity"},
      recs \in LasRecordSeqs, tail \in {0, 5} }

\* Files with a wrong signature, a zero or oversized record length, or an
\* offset to point data of zero or past the end.
LasMalformed ==
    { lasFileBytes([sigOk |-> so, fmt |-> 3, hdrLen |-> 227,
                    offsetField |-> lasOffsetField(om, 227),
                    strideField |-> lasStrideField(sm, 3),
                    legacyCount |-> Len(recs), extCount |-> 0,
                    scale |-> "one", recs |-> recs, tail |-> 0]) :
      so \in BOOLEAN, sm \in {"true", "zero", "huge"}, om \in {"true", "zero", "past"},
      recs \in LasRecordSeqs }

\* A file whose single format-0 record sits at offset 190, inside the 227
\* bytes of the header block, cut to len bytes.
lasCompactBytes(len) ==
    LET hdr == lasHeaderBytes([sigOk |-> TRUE, fmt |-> 0, hdrLen |-> 227,
                               offsetField |-> 190, strideField |-> 20,
                               legacyCount |-> 1, extCount |-> 0, scale |-> "one"])
        rec == lasRecordBytes("ok", 1, 0)
    IN  [k \in 1..len |-> IF k > 190 /\ k <= 210 THEN rec[k - 190] ELSE hdr[k]]

LasShort == { lasCompactBytes(len) : len \in {0, 3, 4, 200, 210, 226, 227} }

LasBuffers == LasWellFormed \cup LasMalformed \cup LasShort

(***************************************************************************)
(* The texts and buffers the pose decoders are applied to.                 *)
(***************************************************************************)

\* The most whole pose records a generated input holds.
MaxPoseRecords == 3

\* A text of n tokens: token i is the number i, except that token `bad`
\* (0: none) is replaced by a token of kind badKind.
poseText(n, bad, badKind) ==
    [i \in 1..n |-> IF i = bad THEN [k |-> badKind, v |-> 0] ELSE [k |-> "num", v |-> i]]

\* Texts of up to MaxPoseRecords pose records and an incomplete one.
PoseTexts ==
    UNION { { poseText(n, bad, bk) : bad \in 0..n, bk \in {"junk", "inf"} } :
            n \in 0..(poseValuesPerRecord * MaxPoseRecords + poseValuesPerRecord - 1) }

\* Buffers of float32 words 0, 1, 2, ... (as bit patterns), of every byte
\* length up to MaxPoseRecords records and an incomplete one.
PoseBuffers ==
    { [k \in 1..len |-> LE32((k - 1) \div 4)[((k - 1) % 4) + 1]] :
      len \in 0..(poseStrideBytes * MaxPoseRecords + poseStrideBytes - 1) }

(***************************************************************************)
(* The decoders applied to their inputs.                                   *)
(***************************************************************************)

SceneIdle ==
    /\ mounted = FALSE
    /\ loads = [i \in LoadIds |-> NoLoad]
    /\ issued = 0
    /\ effectLoad = 0
    /\ modelRef = 0
    /\ model = 0
    /\ baseScaleRef = 1
    /\ disposeCount = [i \in LoadIds |-> 0]
    /\ loading = FALSE

InitDecode ==
    /\ ViewerIdle
    /\ keysHeld = {}
    /\ SceneIdle
    /\ CtlIdle
    /\ parsed = [by |-> "none"]
    /\ \/ /\ decoder = "parsePointCloud"
          /\ buffer \in BinBuffers
          /\ hasHeaderCount \in BOOLEAN
          /\ text = <<>>
       \/ /\ decoder = "parseLasPointCloud"
          /\ buffer \in LasBuffers
          /\ hasHeaderCount = FALSE
          /\ text = <<>>
       \/ /\ decoder \in {"buildPoseGroup", "buildPoseLocations"}
          /\ buffer = <<>>
          /\ hasHeaderCount = FALSE
          /\ text \in PoseTexts
       \/ /\ decoder = "buildPoseGroup(binary)"
          /\ buffer \in PoseBuffers
          /\ hasHeaderCount = FALSE
          /\ text = <<>>

\* parsed = parsePointCloud(arrayBuffer, pointCloud.hasHeaderCount) (line 966).
ParsePointCloud ==
    /\ decoder = "parsePointCloud"
    /\ parsed.by = "none"
    /\ parsed' = parsePointCloud(buffer, hasHeaderCount)
    /\ UNCHANGED <<decoder, buffer, hasHeaderCount, text>>

\* parsed = parseLasPointCloud(arrayBuffer) (line 984).
ParseLasPointCloud ==
    /\ decoder = "parseLasPointCloud"
    /\ parsed.by = "none"
    /\ parsed' = parseLasPointCloud(buffer)
    /\ UNCHANGED <<decoder, buffer, hasHeaderCount, text>>

\* poseGroup = buildPoseGroup(text) (line 1002).
BuildPoseGroupText ==
    /\ decoder = "buildPoseGroup"
    /\ parsed.by = "none"
    /\ parsed' = buildPoseGroupText(text)
    /\ UNCHANGED <<decoder, buffer, hasHeaderCount, text>>

\* buildPoseGroup(data) with an ArrayBuffer (lines 479-493).
BuildPoseGroupBinary ==
    /\ decoder = "buildPoseGroup(binary)"
    /\ parsed.by = "none"
    /\ parsed' = buildPoseGroupBinary(buffer)
    /\ UNCHANGED <<decoder, buffer, hasHeaderCount, text>>

\* positions = buildPoseLocations(text) (line 1011).
BuildPoseLocations ==
    /\ decoder = "buildPoseLocations"
    /\ parsed.by = "none"
    /\ parsed' = buildPoseLocations(text)
    /\ UNCHANGED <<decoder, buffer, hasHeaderCount, text>>

NextDecode ==
    \/ ParsePointCloud /\ UNCHANGED <<sceneVars, ctlVars, viewVars, keyVars>>
    \/ ParseLasPointCloud /\ UNCHANGED <<sceneVars, ctlVars, viewVars, keyVars>>
    \/ BuildPoseGroupText /\ UNCHANGED <<sceneVars, ctlVars, viewVars, keyVars>>
    \/ BuildPoseGroupBinary /\ UNCHANGED <<sceneVars, ctlVars, viewVars, keyVars>>
    \/ BuildPoseLocations /\ UNCHANGED <<sceneVars, ctlVars, viewVars, keyVars>>

SpecDecode == InitDecode /\ [][NextDecode]_vars

(***************************************************************************)
(* The controls of ModelScene: the installed object's transform (rotate,   *)
(* recenter, scale) and the flight camera (look, move, zoom, reset).       *)
(*                                                                         *)
(* Lengths of the camera are integers in 1/1000 of a world unit, angles in *)
(* microradians, times in milliseconds.  The object's box and position are *)
(* integers in world units, its orientation a matrix of quarter turns.     *)
(***************************************************************************)

VecAdd(a, b) == <<a[1] + b[1], a[2] + b[2], a[3] + b[3]>>
VecSub(a, b) == <<a[1] - b[1], a[2] - b[2], a[3] - b[3]>>
VecScale(k, a) == <<k * a[1], k * a[2], k * a[3]>>

Identity3 == <<<<1, 0, 0>>, <<0, 1, 0>>, <<0, 0, 1>>>>

\* The matrix of a rotation by ROTATION_DEGREES (a quarter turn) about an axis.
AxisRotation(axis) ==
    CASE axis = "x" -> <<<<1, 0, 0>>, <<0, 0, -1>>, <<0, 1, 0>>>>
      [] axis = "y" -> <<<<0, 0, 1>>, <<0, 1, 0>>, <<-1, 0, 0>>>>
      [] axis = "z" -> <<<<0, -1, 0>>, <<1, 0, 0>>, <<0, 0, 1>>>>

MatMul(A, B) ==
    [i \in 1..3 |-> [j \in 1..3 |->
        A[i][1] * B[1][j] + A[i][2] * B[2][j] + A[i][3] * B[3][j]]]

MatVec(A, v) == [i \in 1..3 |-> A[i][1] * v[1] + A[i][2] * v[2] + A[i][3] * v[3]]

AbsMat(A) == [i \in 1..3 |-> [j \in 1..3 |-> Abs(A[i][j])]]

\* new THREE.Box3().setFromObject(object): the world box of an object whose
\* geometry has the local box of centre c and half extents h.
Box3Of(o) ==
    LET center == VecAdd(o.position, VecScale(o.scale, MatVec(o.rot, o.c)))
        half == VecScale(o.scale, MatVec(AbsMat(o.rot), o.h))
    IN  [center |-> center, min |-> VecSub(center, half),
         size |-> VecScale(2, half)]

\* Lines 626-630 and 637-641: centre the box on x and z, rest it on y = 0.
settleOnGround(o) ==
    LET adjustedBox == Box3Of(o)
    IN  [o EXCEPT !.position = <<o.position[1] - adjustedBox.center[1],
                                 o.position[2] - adjustedBox.min[2],
                                 o.position[3] - adjustedBox.center[3]>>]

\* A recenter that rests the box's centre, not its floor, on y = 0.
recenterModelOnCenter(o) ==
    [o EXCEPT !.position = VecSub(o.position, Box3Of(o).center)]

\* A recenter that settles the object with the box it measured before it
\* moved the object, instead of measuring again.
recenterModelStaleBox(o) ==
    LET box == Box3Of(o)
        moved == VecSub(o.position, box.center)
    IN  [o EXCEPT !.position = <<moved[1] - box.center[1],
                                 moved[2] - box.min[2],
                                 moved[3] - box.center[3]>>]

\* recenterModel(object) (lines 633-642).
recenterModel(o) ==
    settleOnGround([o EXCEPT !.position = VecSub(o.position, Box3Of(o).center)])

\* The target extent of the fit (line 623).
FIT_EXTENT == 18

\* An alignInitialModel that stops after storing the scale, without the
\* second measurement that settles the object.
alignInitialModelUnsettled(o) ==
    LET box == Box3Of(o)
        m == Max(box.size[1], Max(box.size[2], box.size[3]))
        maxDim == IF m = 0 THEN 1 ELSE m
        scale == FIT_EXTENT \div maxDim
    IN  [object |-> [o EXCEPT !.position = VecSub(o.position, box.center),
                              !.scale = scale],
         baseScale |-> scale]

\* alignInitialModel(object) (lines 617-631): the aligned object and the
\* scale it stores in baseScaleRef.
alignInitialModel(o) ==
    LET box == Box3Of(o)
        m == Max(box.size[1], Max(box.size[2], box.size[3]))
        maxDim == IF m = 0 THEN 1 ELSE m
        scale == FIT_EXTENT \div maxDim
        moved == [o EXCEPT !.position = VecSub(o.position, box.center),
                           !.scale = scale]
    IN  [object |-> settleOnGround(moved), baseScale |-> scale]

\* The objects a load produces: a local box (centre c, half extents h) under
\* the identity transform.  The largest extent divides FIT_EXTENT.
LoadedObjects ==
    { [installed |-> TRUE, c |-> c, h |-> h, rot |-> Identity3, scale |-> 1,
       position |-> <<0, 0, 0>>] :
      c \in {<<0, 0, 0>>, <<2, -1, 4>>}, h \in {<<1, 3, 9>>, <<3, 1, 2>>, <<0, 0, 0>>} }

ROTATION_DEGREES == 90
FULL_TURN == 360

\* ControlsApi.rotate(axis) (lines 681-693) on the installed object and the
\* bookkeeping.
rotateModel(o, bookkeeping, axis) ==
    [object |-> recenterModel([o EXCEPT !.rot = MatMul(o.rot, AxisRotation(axis))]),
     rotation |-> [bookkeeping EXCEPT ![axis] = (@ + ROTATION_DEGREES) % FULL_TURN]]

\* The program's constants (lines 169-179) in the model's units.
PI_URAD == 3141593
PITCH_LIMIT == 1520796
MOVE_SPEED == 4000
ACCELERATION == 14
DECELERATION == 10
LOOK_SENSITIVITY == 3000
ZOOM_SPEED == 2
MIN_ZOOM_DISTANCE == 500
MAX_ZOOM_DISTANCE == 800000

\* The pose resetCamera sets (lines 654-657): the position, and the x and y
\* of the XYZ Euler angles of a camera at (5, 5, 5) looking at the origin,
\* -pi/4 and asin(1/sqrt(3)).
DEFAULT_POSITION == <<5000, 5000, 5000>>
RESET_PITCH == -785398
RESET_YAW == 615480

\* a * b / 1000, rounded toward zero.
MulMilli(a, b) ==
    IF a * b >= 0 THEN (a * b) \div 1000 ELSE -((-(a * b)) \div 1000)

\* a / b rounded toward zero (b > 0).
DivTrunc(a, b) == IF a >= 0 THEN a \div b ELSE -((-a) \div b)

\* Math.sqrt, rounded down, by Newton's iteration from x.
RECURSIVE sqrtFrom(_, _)
sqrtFrom(n, x) ==
    LET y == (x + n \div x) \div 2
    IN  IF y >= x THEN x ELSE sqrtFrom(n, y)

sqrt(n) == IF n = 0 THEN 0 ELSE sqrtFrom(n, 46340)

\* Math.sin of an angle in microradians, in 1/1000: Bhaskara's rational
\* approximation 16 x (pi - x) / (5 pi^2 - 4 x (pi - x)) on [0, pi] (within
\* 2/1000), extended by symmetry; 12337005 is 5 pi^2 / 4 in milliradians^2.
sinHalfTurn(x) ==
    LET xm == x \div 1000
        p == xm * ((PI_URAD \div 1000) - xm)
    IN  IF p <= 0 THEN 0 ELSE (4 * p) \div ((12337005 - p) \div 1000)

sin(a) ==
    LET r == a % (2 * PI_URAD)
    IN  IF r <= PI_URAD THEN sinHalfTurn(r) ELSE -sinHalfTurn(r - PI_URAD)

cos(a) == sin(a + PI_URAD \div 2)

\* Vector3.length() of a vector in 1/1000 units.  Vectors with a component
\* above 25 units are measured in 1/10 units.
VecLength(v) ==
    LET m == Max(Abs(v[1]), Max(Abs(v[2]), Abs(v[3])))
        s == IF m > 25000 THEN 100 ELSE 1
        a == DivTrunc(v[1], s)
        b == DivTrunc(v[2], s)
        c == DivTrunc(v[3], s)
    IN  s * sqrt(a * a + b * b + c * c)

\* Vector3.normalize(): divideScalar(length() || 1), in 1/1000.
normalize(v) ==
    LET m == Max(Abs(v[1]), Max(Abs(v[2]), Abs(v[3])))
        s == IF m > 25000 THEN 100 ELSE 1
        len == VecLength(v) \div s
    IN  IF len = 0 THEN v
        ELSE <<DivTrunc(DivTrunc(v[1], s) * 1000, len),
               DivTrunc(DivTrunc(v[2], s) * 1000, len),
               DivTrunc(DivTrunc(v[3], s) * 1000, len)>>

\* Vector3.setLength(l): normalize().multiplyScalar(l).
setLength(v, l) ==
    LET u == normalize(v)
    IN  <<MulMilli(u[1], l), MulMilli(u[2], l), MulMilli(u[3], l)>>

\* THREE.MathUtils.clamp
clamp(value, lo, hi) == Max(lo, Min(hi, value))

\* Vector3.lerp / MathUtils.lerp: x + (y - x) * alpha, alpha in 1/1000.
lerp(x, y, alpha) == x + MulMilli(y - x, alpha)

\* (0, 0, -1).applyQuaternion(camera.quaternion) (lines 781-783): the view
\* direction, in 1/1000.  The quaternion is the identity, the one lookAt
\* computed from the camera's position, or the one of a YXZ Euler rotation.
forward(q, position) ==
    CASE q.by = "identity" -> <<0, 0, -1000>>
      [] q.by = "lookAt" -> normalize(VecSub(<<0, 0, 0>>, q.from))
      [] q.by = "euler" ->
           <<-MulMilli(cos(q.pitch), sin(q.yaw)),
             sin(q.pitch),
             -MulMilli(cos(q.pitch), cos(q.yaw))>>

\* resetCamera() (lines 652-672): the fields it leaves behind.
resetCamera(o) ==
    [cameraPosition |-> DEFAULT_POSITION,
     cameraQuaternion |-> [by |-> "lookAt", from |-> DEFAULT_POSITION],
     yawRef |-> RESET_YAW,
     pitchRef |-> RESET_PITCH,
     movementRef |-> NoMovement,
     velocityRef |-> <<0, 0, 0>>,
     verticalVelocityRef |-> 0,
     rotationRef |-> [x |-> 0, y |-> 0, z |-> 0],
     object |-> IF o.installed THEN [o EXCEPT !.rot = Identity3] ELSE o]

\* A reset() that leaves the movement flags as they are.
ResetKeepingFlags ==
    /\ mounted
    /\ LET r == resetCamera(object3d) IN
        /\ cameraPosition' = r.cameraPosition
        /\ cameraQuaternion' = r.cameraQuaternion
        /\ yawRef' = r.yawRef
        /\ pitchRef' = r.pitchRef
        /\ velocityRef' = r.velocityRef
        /\ verticalVelocityRef' = r.verticalVelocityRef
        /\ rotationRef' = r.rotationRef
        /\ object3d' = r.object
    /\ UNCHANGED <<movementRef, pointerRef, scaleMultiplier, motions>>

\* ControlsApi.reset() (line 680).
Reset ==
    /\ mounted
    /\ LET r == resetCamera(object3d) IN
        /\ cameraPosition' = r.cameraPosition
        /\ cameraQuaternion' = r.cameraQuaternion
        /\ yawRef' = r.yawRef
        /\ pitchRef' = r.pitchRef
        /\ movementRef' = r.movementRef
        /\ velocityRef' = r.velocityRef
        /\ verticalVelocityRef' = r.verticalVelocityRef
        /\ rotationRef' = r.rotationRef
        /\ object3d' = r.object
    /\ UNCHANGED <<pointerRef, scaleMultiplier, motions>>

Axes == {"x", "y", "z"}

\* ControlsApi.rotate(axis) (lines 681-693).
Rotate(axis) ==
    /\ mounted
    /\ IF modelRef = 0
       THEN UNCHANGED <<object3d, rotationRef>>
       ELSE LET r == rotateModel(object3d, rotationRef, axis) IN
            /\ object3d' = r.object
            /\ rotationRef' = r.rotation
    /\ UNCHANGED <<yawRef, pitchRef, pointerRef, movementRef, velocityRef,
                   verticalVelocityRef, cameraPosition, cameraQuaternion,
                   scaleMultiplier, motions>>

\* The values the scale control delivers.
ScaleMultipliers == {1, 2, 3}

\* The scaleMultiplier prop changes and its effect runs (lines 1066-1071).
ScaleChange(m) ==
    /\ mounted
    /\ m # scaleMultiplier
    /\ scaleMultiplier' = m
    /\ object3d' = IF modelRef = 0 THEN object3d
                   ELSE recenterModel([object3d EXCEPT
                            !.scale = (IF baseScaleRef = 0 THEN 1 ELSE baseScaleRef) * m])
    /\ UNCHANGED <<yawRef, pitchRef, pointerRef, movementRef, velocityRef,
                   verticalVelocityRef, cameraPosition, cameraQuaternion,
                   rotationRef, motions>>

\* Where pointer events happen (clientX, clientY), and with which button.
ClientXs == {0, 200}
ClientYs == {0, 400, 5000}
Buttons == {0, 2}

\* handlePointerDown (lines 717-726); pointer id 1.
PointerDown(button, x, y) ==
    /\ mounted
    /\ pointerRef' = IF button # 0 THEN pointerRef
                     ELSE [active |-> TRUE, lastX |-> x, lastY |-> y, pointerId |-> 1]
    /\ UNCHANGED <<yawRef, pitchRef, movementRef, velocityRef, verticalVelocityRef,
                   cameraPosition, cameraQuaternion, rotationRef, object3d,
                   scaleMultiplier, motions>>

\* The yaw the model follows: drags that would turn the camera further are
\* not explored.
MaxYaw == 2000000

\* A pitch update without the clamp.
nextPitchUnclamped(pitch, dy) == pitch - dy * LOOK_SENSITIVITY

\* Lines 736-740.
nextPitch(pitch, dy) ==
    clamp(pitch - dy * LOOK_SENSITIVITY, -PITCH_LIMIT, PITCH_LIMIT)

\* handlePointerMove (lines 728-741).
PointerMove(x, y) ==
    /\ mounted
    /\ IF ~pointerRef.active
       THEN UNCHANGED <<pointerRef, yawRef, pitchRef>>
       ELSE LET dx == x - pointerRef.lastX
                dy == y - pointerRef.lastY
            IN  /\ Abs(yawRef - dx * LOOK_SENSITIVITY) <= MaxYaw
                /\ pointerRef' = [pointerRef EXCEPT !.lastX = x, !.lastY = y]
                /\ yawRef' = yawRef - dx * LOOK_SENSITIVITY
                /\ pitchRef' = nextPitch(pitchRef, dy)
    /\ UNCHANGED <<movementRef, velocityRef, verticalVelocityRef,
                   cameraPosition, cameraQuaternion, rotationRef, object3d,
                   scaleMultiplier, motions>>

\* An end of the drag that forgets to clear the pointer id.
endPointerInteractionKeepingId(p) == [p EXCEPT !.active = FALSE]

\* endPointerInteraction (lines 743-749).
endPointerInteraction(p) == [p EXCEPT !.active = FALSE, !.pointerId = 0]

\* handlePointerUp (lines 751-754).
PointerUp(button) ==
    /\ mounted
    /\ pointerRef' = IF button # 0 THEN pointerRef ELSE endPointerInteraction(pointerRef)
    /\ UNCHANGED <<yawRef, pitchRef, movementRef, velocityRef, verticalVelocityRef,
                   cameraPosition, cameraQuaternion, rotationRef, object3d,
                   scaleMultiplier, motions>>

\* handlePointerLeave (lines 756-758).
PointerLeave ==
    /\ mounted
    /\ pointerRef' = endPointerInteraction(pointerRef)
    /\ UNCHANGED <<yawRef, pitchRef, movementRef, velocityRef, verticalVelocityRef,
                   cameraPosition, cameraQuaternion, rotationRef, object3d,
                   scaleMultiplier, motions>>

\* The key codes of keyboard events: a key for forward, one for up; "KeyQ"
\* stands for every key that moves nothing.
KeyCodes == {"KeyW", "Space", "KeyQ"}

\* toggleMovement(code, pressed) (lines 813-841).
toggleMovement(m, code, pressed) ==
    CASE code \in {"KeyW", "ArrowUp"} -> [m EXCEPT !.forward = pressed]
      [] code \in {"KeyS", "ArrowDown"} -> [m EXCEPT !.backward = pressed]
      [] code \in {"KeyA", "ArrowLeft"} -> [m EXCEPT !.left = pressed]
      [] code \in {"KeyD", "ArrowRight"} -> [m EXCEPT !.right = pressed]
      [] code = "Space" -> [m EXCEPT !.up = pressed]
      [] code \in {"ShiftLeft", "ShiftRight"} -> [m EXCEPT !.down = pressed]
      [] OTHER -> m

\* handleKeyDown (lines 843-847).
KeyDown(code, typing, repeat) ==
    /\ mounted
    /\ movementRef' = IF typing \/ repeat THEN movementRef
                      ELSE toggleMovement(movementRef, code, TRUE)
    /\ UNCHANGED <<yawRef, pitchRef, pointerRef, velocityRef, verticalVelocityRef,
                   cameraPosition, cameraQuaternion, rotationRef, object3d,
                   scaleMultiplier, motions>>

\* handleKeyUp (lines 849-851).
KeyUp(code) ==
    /\ mounted
    /\ movementRef' = toggleMovement(movementRef, code, FALSE)
    /\ UNCHANGED <<yawRef, pitchRef, pointerRef, velocityRef, verticalVelocityRef,
                   cameraPosition, cameraQuaternion, rotationRef, object3d,
                   scaleMultiplier, motions>>

\* How many frame ticks and wheel events a behaviour holds.
MaxMotions == 2

\* The deltaY of wheel events: nothing, a notch out (100), and 500000 either
\* way (1000 units of travel); negative zooms in.
WheelDeltas == {-500000, 0, 100, 500000}

\* The position handleWheel leaves (lines 778-791).
wheelPosition(position, q, deltaY) ==
    LET delta == -deltaY * ZOOM_SPEED
        direction == normalize(forward(q, position))
        nextPosition == <<position[1] + MulMilli(direction[1], delta),
                          position[2] + MulMilli(direction[2], delta),
                          position[3] + MulMilli(direction[3], delta)>>
        distance == VecLength(nextPosition)
    IN  IF delta = 0 THEN position
        ELSE IF distance < MIN_ZOOM_DISTANCE THEN setLength(nextPosition, MIN_ZOOM_DISTANCE)
        ELSE IF distance > MAX_ZOOM_DISTANCE THEN setLength(nextPosition, MAX_ZOOM_DISTANCE)
        ELSE nextPosition

\* handleWheel (lines 776-792).
Wheel(deltaY) ==
    /\ mounted
    /\ motions < MaxMotions
    /\ motions' = motions + 1
    /\ cameraPosition' = wheelPosition(cameraPosition, cameraQuaternion, deltaY)
    /\ UNCHANGED <<yawRef, pitchRef, pointerRef, movementRef, velocityRef,
                   verticalVelocityRef, cameraQuaternion, rotationRef, object3d,
                   scaleMultiplier>>

\* The time between frames, in milliseconds.
FrameDeltas == {16, 100}

\* Lines 1079-1092: the target velocity of the held directions, turned by
\* the yaw about WORLD_UP.
targetVelocity(m, yaw) ==
    LET dx == (IF m.right THEN 1 ELSE 0) - (IF m.left THEN 1 ELSE 0)
        dz == (IF m.backward THEN 1 ELSE 0) - (IF m.forward THEN 1 ELSE 0)
        direction == normalize(<<1000 * dx, 0, 1000 * dz>>)
        moveVector == <<MulMilli(direction[1], cos(yaw)) + MulMilli(direction[3], sin(yaw)),
                        0,
                        MulMilli(direction[3], cos(yaw)) - MulMilli(direction[1], sin(yaw))>>
    IN  <<MulMilli(moveVector[1], MOVE_SPEED), 0, MulMilli(moveVector[3], MOVE_SPEED)>>

\* A blend factor without the cap at 1.
horizontalFactorUncapped(m, dt) == ACCELERATION * dt

\* The blend factor of the horizontal velocity (line 1094), in 1/1000.
horizontalFactor(m, dt) == Min(ACCELERATION * dt, 1000)

\* The blend factor of the vertical velocity (lines 1100-1103), in 1/1000.
verticalFactor(vertical, dt) ==
    Min((IF vertical # 0 THEN ACCELERATION ELSE DECELERATION) * dt, 1000)

\* The useFrame callback (lines 1073-1107) with delta = dt.
Frame(dt) ==
    /\ mounted
    /\ motions < MaxMotions
    /\ motions' = motions + 1
    /\ cameraQuaternion' = [by |-> "euler", pitch |-> pitchRef, yaw |-> yawRef]
    /\ LET target == targetVelocity(movementRef, yawRef)
           alpha == horizontalFactor(movementRef, dt)
           velocity == <<lerp(velocityRef[1], target[1], alpha),
                         lerp(velocityRef[2], target[2], alpha),
                         lerp(velocityRef[3], target[3], alpha)>>
           vertical == (IF movementRef.up THEN 1 ELSE 0)
                         - (IF movementRef.down THEN 1 ELSE 0)
           vv == lerp(verticalVelocityRef, vertical * MOVE_SPEED,
                      verticalFactor(vertical, dt))
       IN  /\ velocityRef' = velocity
           /\ verticalVelocityRef' = vv
           /\ cameraPosition' = <<cameraPosition[1] + MulMilli(velocity[1], dt),
                                  cameraPosition[2] + MulMilli(velocity[2], dt)
                                    + MulMilli(vv, dt),
                                  cameraPosition[3] + MulMilli(velocity[3], dt)>>
    /\ UNCHANGED <<yawRef, pitchRef, pointerRef, movementRef, rotationRef,
                   object3d, scaleMultiplier>>

\* The scene after the first load installed its object (lines 1035-1039).
SceneWithObject ==
    /\ mounted = TRUE
    /\ loads = [i \in LoadIds |->
                  IF i = 1 THEN [status |-> "installed", cancelled |-> FALSE, prior |-> 0]
                  ELSE NoLoad]
    /\ issued = 1
    /\ effectLoad = 1
    /\ modelRef = 1
    /\ model = 1
    /\ disposeCount = [i \in LoadIds |-> 0]
    /\ loading = FALSE

\* The controls after the mount effect ran resetCamera (lines 674-676), with
\* o the installed object.
ControlsAfterMount(o) ==
    LET r == resetCamera([installed |-> FALSE]) IN
    /\ yawRef = r.yawRef
    /\ pitchRef = r.pitchRef
    /\ pointerRef = [active |-> FALSE, lastX |-> 0, lastY |-> 0, pointerId |-> 0]
    /\ movementRef = r.movementRef
    /\ velocityRef = r.velocityRef
    /\ verticalVelocityRef = r.verticalVelocityRef
    /\ cameraPosition = r.cameraPosition
    /\ cameraQuaternion = r.cameraQuaternion
    /\ rotationRef = r.rotationRef
    /\ object3d = o
    /\ scaleMultiplier = 1
    /\ motions = 0

\* The object controls: an object of LoadedObjects was aligned and installed.
InitObject ==
    /\ ViewerIdle
    /\ keysHeld = {}
    /\ DecIdle
    /\ SceneWithObject
    /\ \E o \in LoadedObjects :
         LET a == alignInitialModel(o) IN
         /\ baseScaleRef = a.baseScale
         /\ ControlsAfterMount(a.object)

NextObject ==
    \/ \E axis \in Axes : Rotate(axis) /\ UNCHANGED <<sceneVars, decVars, viewVars, keyVars>>
    \/ \E m \in ScaleMultipliers : ScaleChange(m) /\ UNCHANGED <<sceneVars, decVars, viewVars, keyVars>>
    \/ Reset /\ UNCHANGED <<sceneVars, decVars, viewVars, keyVars>>

SpecObject == InitObject /\ [][NextObject]_vars

\* The object the flight specification starts with.
FlightObject ==
    [installed |-> TRUE, c |-> <<2, -1, 4>>, h |-> <<1, 3, 9>>, rot |-> Identity3,
     scale |-> 1, position |-> <<0, 0, 0>>]

\* Looking around: pointer drags, frame ticks and resets on an empty scene.
InitLook ==
    /\ ViewerIdle
    /\ keysHeld = {}
    /\ DecIdle
    /\ SceneInit
    /\ ControlsAfterMount([installed |-> FALSE])

NextLook ==
    \/ \E button \in Buttons, x \in ClientXs, y \in ClientYs :
         PointerDown(button, x, y) /\ UNCHANGED <<sceneVars, decVars, viewVars, keyVars>>
    \/ \E x \in ClientXs, y \in ClientYs :
         PointerMove(x, y) /\ UNCHANGED <<sceneVars, decVars, viewVars, keyVars>>
    \/ \E button \in Buttons : PointerUp(button) /\ UNCHANGED <<sceneVars, decVars, viewVars, keyVars>>
    \/ PointerLeave /\ UNCHANGED <<sceneVars, decVars, viewVars, keyVars>>
    \/ \E dt \in FrameDeltas : Frame(dt) /\ UNCHANGED <<sceneVars, decVars, viewVars, keyVars>>
    \/ Reset /\ UNCHANGED <<sceneVars, decVars, viewVars, keyVars>>

SpecLook == InitLook /\ [][NextLook]_vars

\* Flying: keys, frame ticks, wheel events, quarter turns about x and
\* resets, with FlightObject aligned and installed.
InitFlight ==
    /\ ViewerIdle
    /\ keysHeld = {}
    /\ DecIdle
    /\ SceneWithObject
    /\ LET a == alignInitialModel(FlightObject) IN
       /\ baseScaleRef = a.baseScale
       /\ ControlsAfterMount(a.object)

NextFlight ==
    \/ \E code \in KeyCodes, typing \in BOOLEAN, repeat \in BOOLEAN :
         KeyDown(code, typing, repeat) /\ UNCHANGED <<sceneVars, decVars, viewVars, keyVars>>
    \/ \E code \in KeyCodes : KeyUp(code) /\ UNCHANGED <<sceneVars, decVars, viewVars, keyVars>>
    \/ \E deltaY \in WheelDeltas : Wheel(deltaY) /\ UNCHANGED <<sceneVars, decVars, viewVars, keyVars>>
    \/ \E dt \in FrameDeltas : Frame(dt) /\ UNCHANGED <<sceneVars, decVars, viewVars, keyVars>>
    \/ Rotate("x") /\ UNCHANGED <<sceneVars, decVars, viewVars, keyVars>>
    \/ Reset /\ UNCHANGED <<sceneVars, decVars, viewVars, keyVars>>

SpecFlight == InitFlight /\ [][NextFlight]_vars

(***************************************************************************)
(* ModelViewer's own state (src/components/model-viewer.tsx): what         *)
(* handleFileUpload, the completion of its await and handleClear leave in  *)
(* modelUrl, modelExtension, pointCloud, poseData and poseLocations.       *)
(***************************************************************************)

\* The primary file's extension: two that make handleFileUpload await the
\* file's bytes, one point cloud set without waiting, the two pose formats
\* and a mesh.
Extensions == {"bin", "las", "pci", "pf", "plf", "glb"}

\* The extensions whose branch awaits fileToBuffer (lines 147-163).
AwaitedExtensions == {"bin", "las"}

\* handleFileUpload up to its return or its await (lines 111-163): the state
\* the batched setters of cleanupAssets (73-81) and of lines 142-188 leave.
ViewerUpload(ext) ==
    /\ uploadCount < MaxUploads
    /\ LET id == uploadCount + 1 IN
        /\ uploadCount' = id
        /\ uploads' = [uploads EXCEPT ![id] =
                          [ext |-> ext,
                           at |-> IF ext \in AwaitedExtensions THEN "awaiting"
                                  ELSE "returned"]]
        /\ modelUrl' = id
        /\ modelExtension' = ext
        /\ pointCloud' = IF ext = "pci" THEN [kind |-> "pci", upload |-> id]
                         ELSE NoPointCloud
        /\ poseData' = IF ext = "pf" THEN id ELSE 0
        /\ poseLocations' = IF ext = "plf" THEN id ELSE 0

\* fileToBuffer resolves for upload id and handleFileUpload resumes (lines
\* 149-156, 158-163).
FileBytesArrive(id) ==
    /\ uploads[id].at = "awaiting"
    /\ uploads' = [uploads EXCEPT ![id].at = "returned"]
    /\ pointCloud' = [kind |-> uploads[id].ext, upload |-> id]
    /\ poseData' = 0
    /\ poseLocations' = 0
    /\ UNCHANGED <<uploadCount, modelUrl, modelExtension>>

\* fileToBuffer rejects for upload id (lines 100-105): handleFileUpload ends
\* there.
FileReadFails(id) ==
    /\ uploads[id].at = "awaiting"
    /\ uploads' = [uploads EXCEPT ![id].at = "rejected"]
    /\ UNCHANGED <<uploadCount, modelUrl, modelExtension, pointCloud, poseData,
                   poseLocations>>

\* The setters of handleClear (lines 191-196), cleanupAssets included.
ViewerClear ==
    /\ modelUrl' = 0
    /\ modelExtension' = "none"
    /\ pointCloud' = NoPointCloud
    /\ poseData' = 0
    /\ poseLocations' = 0
    /\ UNCHANGED <<uploads, uploadCount>>

(***************************************************************************)
(* The load effect together with the object controls: uploads, installs,   *)
(* failures and clears of ModelViewer (src/components/model-viewer.tsx)    *)
(* interleaved with rotate, scale changes, reset and key presses.          *)
(***************************************************************************)

\* The objects the loads of this specification produce: one off its origin
\* with a largest extent of 18, one with a largest extent of 6, one without
\* extent.
InstallObjects ==
    { [installed |-> TRUE, c |-> <<2, -1, 4>>, h |-> <<1, 3, 9>>, rot |-> Identity3,
       scale |-> 1, position |-> <<0, 0, 0>>],
      [installed |-> TRUE, c |-> <<0, 0, 0>>, h |-> <<3, 1, 2>>, rot |-> Identity3,
       scale |-> 1, position |-> <<0, 0, 0>>],
      [installed |-> TRUE, c |-> <<2, -1, 4>>, h |-> <<0, 0, 0>>, rot |-> Identity3,
       scale |-> 1, position |-> <<0, 0, 0>>] }

\* What an upload does to ModelScene (model-viewer.tsx, lines 142-146): the
\* render after setModelUrl and setScale(1) re-runs the load effect and, when
\* the multiplier changed, the scale effect too (lines 1066-1071).
Upload ==
    /\ IssueLoad
    /\ scaleMultiplier' = 1
    /\ object3d' = IF scaleMultiplier = 1 \/ modelRef = 0 THEN object3d
                   ELSE recenterModel([object3d EXCEPT
                            !.scale = IF baseScaleRef = 0 THEN 1 ELSE baseScaleRef])
    /\ UNCHANGED <<yawRef, pitchRef, pointerRef, movementRef, velocityRef,
                   verticalVelocityRef, cameraPosition, cameraQuaternion,
                   rotationRef, motions>>

\* loadModel of request id reaches line 1029 with the object o (lines
\* 1029-1040): alignInitialModel, removeCurrentModel, install.
Install(id, o) ==
    LET a == alignInitialModel(o) IN
    /\ LoadCompletes(id, a.baseScale)
    /\ object3d' = IF loads[id].cancelled THEN object3d ELSE a.object
    /\ UNCHANGED <<yawRef, pitchRef, pointerRef, movementRef, velocityRef,
                   verticalVelocityRef, cameraPosition, cameraQuaternion,
                   rotationRef, scaleMultiplier, motions>>

\* What handleClear does to ModelScene (model-viewer.tsx, lines 191-201):
\* reset() on the object still installed, then the render's load effect with
\* a null modelUrl removes it (lines 890-894); the scale effect finds no
\* object.
HandleClear ==
    /\ ClearScene
    /\ LET r == resetCamera(object3d) IN
        /\ cameraPosition' = r.cameraPosition
        /\ cameraQuaternion' = r.cameraQuaternion
        /\ yawRef' = r.yawRef
        /\ pitchRef' = r.pitchRef
        /\ movementRef' = r.movementRef
        /\ velocityRef' = r.velocityRef
        /\ verticalVelocityRef' = r.verticalVelocityRef
        /\ rotationRef' = r.rotationRef
    /\ object3d' = [installed |-> FALSE]
    /\ scaleMultiplier' = 1
    /\ UNCHANGED <<pointerRef, motions>>

InitInstall ==
    /\ ViewerIdle
    /\ keysHeld = {}
    /\ DecIdle
    /\ SceneInit
    /\ ControlsAfterMount([installed |-> FALSE])

NextInstall ==
    \/ Upload /\ ViewerUpload("glb") /\ UNCHANGED <<decVars, keyVars>>
    \/ \E id \in LoadIds, o \in InstallObjects : Install(id, o) /\ UNCHANGED <<decVars, viewVars, keyVars>>
    \/ \E id \in LoadIds : LoadFails(id) /\ UNCHANGED <<decVars, ctlVars, viewVars, keyVars>>
    \/ HandleClear /\ ViewerClear /\ UNCHANGED <<decVars, keyVars>>
    \/ Rotate("x") /\ UNCHANGED <<sceneVars, decVars, viewVars, keyVars>>
    \/ \E m \in ScaleMultipliers : ScaleChange(m) /\ UNCHANGED <<sceneVars, decVars, viewVars, keyVars>>
    \/ Reset /\ UNCHANGED <<sceneVars, decVars, viewVars, keyVars>>
    \/ \E code \in KeyCodes : KeyDown(code, FALSE, FALSE) /\ UNCHANGED <<sceneVars, decVars, viewVars, keyVars>>

SpecInstall == InitInstall /\ [][NextInstall]_vars

\* ModelViewer alone, with no object installed.
InitViewer ==
    /\ ViewerIdle
    /\ keysHeld = {}
    /\ DecIdle
    /\ SceneInit
    /\ ControlsAfterMount([installed |-> FALSE])

\* ModelScene's load effect is left out here: Spec and SpecInstall follow it.
NextViewer ==
    \/ \E ext \in Extensions :
         /\ ViewerUpload(ext)
         /\ scaleMultiplier' = 1
         /\ UNCHANGED <<yawRef, pitchRef, pointerRef, movementRef, velocityRef,
                        verticalVelocityRef, cameraPosition, cameraQuaternion,
                        rotationRef, object3d, motions>>
         /\ UNCHANGED <<sceneVars, decVars, keyVars>>
    \/ \E id \in UploadIds : FileBytesArrive(id) /\ UNCHANGED <<sceneVars, decVars, ctlVars, keyVars>>
    \/ \E id \in UploadIds : FileReadFails(id) /\ UNCHANGED <<sceneVars, decVars, ctlVars, keyVars>>
    \/ HandleClear /\ ViewerClear /\ UNCHANGED <<decVars, keyVars>>
    \/ \E m \in ScaleMultipliers : ScaleChange(m) /\ UNCHANGED <<sceneVars, decVars, viewVars, keyVars>>

SpecViewer == InitViewer /\ [][NextViewer]_vars

(***************************************************************************)
(* The keyboard: keys go down and up, and the key handlers of lines        *)
(* 843-851 follow them.                                                    *)
(***************************************************************************)

\* The codes toggleMovement binds (lines 814-837) and one it does not.
BoundKeyCodes ==
    {"KeyW", "ArrowUp", "KeyS", "ArrowDown", "KeyA", "ArrowLeft", "KeyD",
     "ArrowRight", "Space", "ShiftLeft", "ShiftRight", "KeyQ"}

\* A keydown event outside a typing target: the first for a key that was
\* up, a repeat (event.repeat) for a key that is held.
KeyboardDown(code) ==
    /\ KeyDown(code, FALSE, code \in keysHeld)
    /\ keysHeld' = keysHeld \cup {code}

\* A keyup event: the key was down.
KeyboardUp(code) ==
    /\ code \in keysHeld
    /\ KeyUp(code)
    /\ keysHeld' = keysHeld \ {code}

InitKeys ==
    /\ ViewerIdle
    /\ keysHeld = {}
    /\ DecIdle
    /\ SceneInit
    /\ ControlsAfterMount([installed |-> FALSE])

NextKeys ==
    \/ \E code \in BoundKeyCodes :
         KeyboardDown(code) /\ UNCHANGED <<sceneVars, decVars, viewVars>>
    \/ \E code \in BoundKeyCodes :
         KeyboardUp(code) /\ UNCHANGED <<sceneVars, decVars, viewVars>>

SpecKeys == InitKeys /\ [][NextKeys]_vars

(***************************************************************************)
(* The frame callback under every combination of movement flags: keys are  *)
(* down when the frames start, and some of them go up and down between     *)
(* frames.                                                                 *)
(***************************************************************************)

\* One key code for each movement flag (lines 814-837).
MoveKeyCodes == {"KeyW", "KeyS", "KeyA", "KeyD", "Space", "ShiftLeft"}

\* The keys that go down and up between frames.
ToggledKeyCodes == {"KeyW", "KeyS", "ShiftLeft"}

\* The flags after a keydown event (line 846) for each key of codes.
RECURSIVE pressAll(_, _)
pressAll(m, codes) ==
    IF codes = {} THEN m
    ELSE LET code == CHOOSE c \in codes : TRUE
         IN  pressAll(toggleMovement(m, code, TRUE), codes \ {code})

\* The controls after the mount effect and the keydown events of some keys,
\* before the first frame.
InitMove ==
    /\ ViewerIdle
    /\ DecIdle
    /\ SceneInit
    /\ keysHeld \in SUBSET MoveKeyCodes
    /\ LET r == resetCamera([installed |-> FALSE]) IN
       /\ yawRef = r.yawRef
       /\ pitchRef = r.pitchRef
       /\ pointerRef = [active |-> FALSE, lastX |-> 0, lastY |-> 0, pointerId |-> 0]
       /\ movementRef = pressAll(r.movementRef, keysHeld)
       /\ velocityRef = r.velocityRef
       /\ verticalVelocityRef = r.verticalVelocityRef
       /\ cameraPosition = r.cameraPosition
       /\ cameraQuaternion = r.cameraQuaternion
       /\ rotationRef = r.rotationRef
       /\ object3d = [installed |-> FALSE]
       /\ scaleMultiplier = 1
       /\ motions = 0

NextMove ==
    \/ \E code \in ToggledKeyCodes :
         KeyboardDown(code) /\ UNCHANGED <<sceneVars, decVars, viewVars>>
    \/ \E code \in ToggledKeyCodes :
         KeyboardUp(code) /\ UNCHANGED <<sceneVars, decVars, viewVars>>
    \/ \E dt \in FrameDeltas :
         Frame(dt) /\ UNCHANGED <<sceneVars, decVars, viewVars, keyVars>>

SpecMove == InitMove /\ [][NextMove]_vars

(***************************************************************************)
(* Installs of objects that come out of their loader with a scale of their *)
(* own: FBXLoader returns the file's root group as it is, transform        *)
(* included (line 959), and alignInitialModel receives it at line 1035.    *)
(***************************************************************************)

\* The objects a load produces: a local box under the identity rotation and
\* the object's own uniform scale.  The largest extent divides FIT_EXTENT.
ScaledObjects ==
    { [installed |-> TRUE, c |-> c, h |-> h, rot |-> Identity3, scale |-> s,
       position |-> <<0, 0, 0>>] :
      c \in {<<0, 0, 0>>, <<2, -1, 4>>},
      h \in {<<1, 1, 1>>, <<1, 3, 2>>, <<0, 0, 0>>},
      s \in {1, 3} }

NextAlign ==
    \/ Upload /\ ViewerUpload("fbx") /\ UNCHANGED <<decVars, keyVars>>
    \/ \E id \in LoadIds, o \in ScaledObjects :
         Install(id, o) /\ UNCHANGED <<decVars, viewVars, keyVars>>

SpecAlign == InitInstall /\ [][NextAlign]_vars


(***************************************************************************)
(* Claims about the load effect (checked under Spec).                      *)
(***************************************************************************)

\* A load has produced an object once it completed with one.
Produced(id) == loads[id].status \in {"installed", "discarded"}

\* C1: the object of a request other than the most recently issued one (or of
\* a request that a clear or an unmount has cancelled) is never installed as
\* the active scene object, in any order of completion; when such a stale
\* request completes with an object, that object is disposed and the active
\* object stays as it was.
C1_StaleNeverInstalled ==
    [][\A id \in LoadIds :
        /\ (modelRef' = id /\ modelRef # id)
              => (mounted /\ id = issued /\ id = effectLoad)
        /\ (loads[id].status = "pending" /\ Produced(id)' /\ id # effectLoad)
              => /\ modelRef' = modelRef
                 /\ model' = model
                 /\ disposeCount'[id] = disposeCount[id] + 1]_vars

\* C1 witness: request 1 completed after request 2 had been issued and
\* installed; its object was disposed, request 2's object is active.
C1_Witness ==
    /\ loads[1].status = "discarded"
    /\ disposeCount[1] = 1
    /\ loads[2].status = "installed"
    /\ modelRef = 2

\* C2: every object a load has produced is the active scene object or has
\* been disposed; the rendered object is the active one while mounted.
C2_ActiveOrDisposed ==
    /\ \A id \in LoadIds : Produced(id) => (modelRef = id \/ disposeCount[id] >= 1)
    /\ mounted => model = modelRef

\* C2 witness: an installed object was replaced by a newer one and then the
\* component unmounted: both were dropped and both are disposed.
C2_Witness ==
    /\ ~mounted
    /\ loads[1].status = "installed"
    /\ loads[2].status = "installed"
    /\ modelRef = 0
    /\ disposeCount[1] = 1
    /\ disposeCount[2] = 1

\* C3: when the most recent load fails, the active scene object is the one
\* that was active when the load was issued; nothing is installed, removed or
\* disposed by the failure.
C3_FailureKeepsScene ==
    [][\A id \in LoadIds :
        (loads[id].status = "pending" /\ loads'[id].status = "failed"
            /\ id = effectLoad)
          => /\ modelRef' = loads[id].prior
             /\ modelRef' = modelRef
             /\ model' = model
             /\ disposeCount' = disposeCount]_vars

\* C3 witness: request 2 was issued while object 1 was active and failed as
\* the most recent request; object 1 is still active and not disposed.
C3_Witness ==
    /\ loads[2].status = "failed"
    /\ effectLoad = 2
    /\ loads[2].prior = 1
    /\ modelRef = 1
    /\ disposeCount[1] = 0

(***************************************************************************)
(* Claims about the decoders (checked under SpecDecode).                   *)
(***************************************************************************)

BinDone == parsed.by = "parsePointCloud"
LasDone == parsed.by = "parseLasPointCloud"

\* C4: a result of parsePointCloud or parseLasPointCloud has
\* positions.length = 3 * acceptedPoints and acceptedPoints >= 1: a decode
\* that accepts no record returns no result.
C4_PositionsMatchAccepted ==
    ((BinDone \/ LasDone) /\ parsed.ok)
      => /\ parsed.metadata.acceptedPoints >= 1
         /\ Len(parsed.positions) = 3 * parsed.metadata.acceptedPoints

\* C4 witness: a parsePointCloud result trimmed below the pre-sized buffer
\* (a sampled record was rejected).
C4_Witness ==
    /\ BinDone
    /\ parsed.ok
    /\ parsed.metadata.acceptedPoints
         < parsed.metadata.recordCount \div parsed.metadata.downsampleStep

\* C5: no decoder returns a result for an input shorter than one record:
\* parsePointCloud under 24 bytes, parseLasPointCloud under 227 bytes or under
\* its declared record length, buildPoseGroup under 52 bytes or 13 values,
\* buildPoseLocations under 4 values.
C5_ShortInputNoResult ==
    /\ (BinDone /\ byteLength(buffer) < binStride) => ~parsed.ok
    /\ (LasDone /\ byteLength(buffer) < LAS_MIN_HEADER) => ~parsed.ok
    /\ (LasDone /\ byteLength(buffer) >= LAS_MIN_HEADER
          /\ byteLength(buffer) < getUint16(buffer, 105)) => ~parsed.ok
    /\ (parsed.by = "buildPoseGroup" /\ decoder = "buildPoseGroup(binary)"
          /\ byteLength(buffer) < poseStrideBytes) => ~parsed.ok
    /\ (parsed.by = "buildPoseGroup" /\ decoder = "buildPoseGroup"
          /\ Len(text) < poseValuesPerRecord) => ~parsed.ok
    /\ (parsed.by = "buildPoseLocations" /\ Len(text) < poseLocValuesPerRecord)
          => ~parsed.ok

\* C5 witness: parseLasPointCloud was applied to a 226-byte buffer that holds
\* a signature, a header and one whole record, and returned no result.
C5_Witness ==
    /\ LasDone
    /\ byteLength(buffer) = LAS_MIN_HEADER - 1
    /\ SubSeq(buffer, 1, 4) = LASF
    /\ getUint32(buffer, 96) + getUint16(buffer, 105) <= byteLength(buffer)
    /\ ~parsed.ok

\* C6 (as stated): parsePointCloud and parseLasPointCloud never return more
\* than MAX_POINTS points.
C6_WithinPointBudget ==
    ((BinDone \/ LasDone) /\ parsed.ok)
      => parsed.metadata.acceptedPoints <= MAX_POINTS

\* The records of the buffer handed to parsePointCloud, as the decoder lays
\* them out.
binLayout ==
    LET hdr == readHeaderCount(buffer, hasHeaderCount)
        maxPossible == (byteLength(buffer) - hdr.headerOffset) \div binStride
    IN  [headerOffset |-> hdr.headerOffset,
         recordCount |-> IF hdr.declaredCount # 0
                         THEN Min(hdr.declaredCount, maxPossible) ELSE maxPossible]

\* Record i of the buffer passes the finiteness and magnitude check.
binRecordValid(i, useInt) ==
    LET pt == binPoint(buffer, binLayout.headerOffset + i * binStride, useInt)
    IN  validPoint(pt[1], pt[2], pt[3])

\* C7: with N = recordCount <= MAX_POINTS the step is 1; a result never has
\* more than floor(recordCount / downsampleStep) points nor more than
\* recordCount; and when N <= MAX_POINTS records are all valid under one
\* interpretation and that interpretation is chosen, exactly N points are
\* returned.
C7_StepOneWithinBudget ==
    BinDone =>
      /\ parsed.ok =>
           /\ parsed.metadata.recordCount = binLayout.recordCount
           /\ (parsed.metadata.recordCount <= MAX_POINTS
                 => parsed.metadata.downsampleStep = 1)
           /\ parsed.metadata.acceptedPoints
                <= parsed.metadata.recordCount \div parsed.metadata.downsampleStep
           /\ parsed.metadata.acceptedPoints <= parsed.metadata.recordCount
      /\ \A useInt \in BOOLEAN :
           ( /\ binLayout.recordCount >= 1
             /\ binLayout.recordCount <= MAX_POINTS
             /\ \A i \in 0..(binLayout.recordCount - 1) : binRecordValid(i, useInt)
             /\ (parsed.ok => parsed.metadata.usedIntegerMode = useInt)
             /\ (~parsed.ok => ~useInt) )
           => /\ parsed.ok
              /\ parsed.metadata.acceptedPoints = binLayout.recordCount

\* C7 witness: a buffer of exactly MAX_POINTS records, all valid as floats,
\* decoded with step 1 into MAX_POINTS points.
C7_Witness ==
    /\ BinDone
    /\ parsed.ok
    /\ ~parsed.metadata.usedIntegerMode
    /\ parsed.metadata.recordCount = MAX_POINTS
    /\ parsed.metadata.downsampleStep = 1
    /\ parsed.metadata.acceptedPoints = MAX_POINTS

\* C8: usedIntegerMode = (probeIntHits > probeFloatHits), so a tie selects the
\* floats, and every returned point is a record of the buffer decoded with
\* the interpretation so chosen.
C8_IntegerModeByMajority ==
    (BinDone /\ parsed.ok) =>
      LET m == parsed.metadata
      IN  /\ m.usedIntegerMode = (m.probeIntHits > m.probeFloatHits)
          /\ \A k \in 0..(m.acceptedPoints - 1) :
               \E i \in 0..(m.recordCount - 1) :
                 /\ binRecordValid(i, m.usedIntegerMode)
                 /\ SubSeq(parsed.positions, 3 * k + 1, 3 * k + 3)
                      = binPoint(buffer, m.headerOffset + i * binStride,
                                 m.usedIntegerMode)
          /\ \A j \in 1..Len(parsed.positions) :
               parsed.positions[j].k = (IF m.usedIntegerMode THEN "milli" ELSE "f32")

\* C8 witness: one probed record is valid as floats, the other is not; both
\* are valid as integers, and the integer interpretation was used.
C8_Witness ==
    /\ BinDone
    /\ parsed.ok
    /\ parsed.metadata.probeFloatHits = 1
    /\ parsed.metadata.probeIntHits = 2
    /\ parsed.metadata.usedIntegerMode
    /\ parsed.positions[1].k = "milli"

\* C9: parseLasPointCloud returns no result for a buffer under 227 bytes, a
\* signature other than "LASF", a record length of 0, or a buffer that ends
\* before offsetToPointData plus one record.
C9_LasHeaderRejected ==
    LasDone =>
      /\ byteLength(buffer) < LAS_MIN_HEADER => ~parsed.ok
      /\ (byteLength(buffer) >= 4 /\ SubSeq(buffer, 1, 4) # LASF) => ~parsed.ok
      /\ (byteLength(buffer) >= LAS_MIN_HEADER /\ getUint16(buffer, 105) = 0)
            => ~parsed.ok
      /\ (byteLength(buffer) >= LAS_MIN_HEADER
            /\ byteLength(buffer) < getUint32(buffer, 96) + getUint16(buffer, 105))
            => ~parsed.ok

\* C9 witness: a buffer with the signature and a full header whose point data
\* would start inside the buffer but leaves no room for one record.
C9_Witness ==
    /\ LasDone
    /\ byteLength(buffer) >= LAS_MIN_HEADER
    /\ SubSeq(buffer, 1, 4) = LASF
    /\ getUint16(buffer, 105) # 0
    /\ getUint32(buffer, 107) > 0
    /\ getUint32(buffer, 96) < byteLength(buffer)
    /\ byteLength(buffer) < getUint32(buffer, 96) + getUint16(buffer, 105)
    /\ ~parsed.ok

\* The header fields of the buffer handed to parseLasPointCloud.
lasHeaderOf(buf) ==
    [stride |-> getUint16(buf, 105), offsetToData |-> getUint32(buf, 96),
     scaleX |-> getFloat64(buf, 131), scaleY |-> getFloat64(buf, 139),
     scaleZ |-> getFloat64(buf, 147), offsetX |-> getFloat64(buf, 155),
     offsetY |-> getFloat64(buf, 163), offsetZ |-> getFloat64(buf, 171)]

\* The coordinates of LAS record i.
lasRecordPoint(buf, i) ==
    LET h == lasHeaderOf(buf)
        base == h.offsetToData + i * h.stride
    IN  <<lasCoord(getInt32(buf, base), h.scaleX, h.offsetX),
          lasCoord(getInt32(buf, base + 4), h.scaleY, h.offsetY),
          lasCoord(getInt32(buf, base + 8), h.scaleZ, h.offsetZ)>>

\* The colour of LAS record i: its three channels when they lie inside the
\* buffer, black otherwise.
lasRecordColor(buf, i) ==
    LET h == lasHeaderOf(buf)
        base == h.offsetToData + i * h.stride
        co == IF getUint8(buf, 104) % 16 = 3 THEN 28 ELSE 20
    IN  IF base + co + 6 <= byteLength(buf)
        THEN <<Min(COLOR_ONE, getUint16(buf, base + co)),
               Min(COLOR_ONE, getUint16(buf, base + co + 2)),
               Min(COLOR_ONE, getUint16(buf, base + co + 4))>>
        ELSE <<0, 0, 0>>

\* The sampled records of the LAS buffer that fit and pass the check.
lasKept(buf, m) ==
    { i \in 0..(m.recordCount - 1) :
        /\ i % m.downsampleStep = 0
        /\ m.headerOffset + i * getUint16(buf, 105) + 12 <= byteLength(buf)
        /\ LET pt == lasRecordPoint(buf, i) IN validPoint(pt[1], pt[2], pt[3]) }

\* The record behind accepted point k (0-based): the kept record with k kept
\* records before it.
lasSourceOf(buf, m, k) ==
    CHOOSE i \in lasKept(buf, m) :
        Cardinality({j \in lasKept(buf, m) : j < i}) = k

\* C10: parseLasPointCloud returns colours exactly for point formats 2 and 3;
\* the colour buffer is as long as positions, its entry k is the colour of
\* the record accepted as point k (black when the record's colour bytes lie
\* past the end of the buffer), and every channel is in [0, 1].
C10_LasColorsParallel ==
    (LasDone /\ parsed.ok) =>
      LET m == parsed.metadata
          fmt == getUint8(buffer, 104) % 16
      IN  /\ parsed.hasColors = (fmt = 2 \/ fmt = 3)
          /\ parsed.hasColors =>
               /\ Len(parsed.colors) = Len(parsed.positions)
               /\ \A j \in 1..Len(parsed.colors) :
                    parsed.colors[j] >= 0 /\ parsed.colors[j] <= COLOR_ONE
               /\ \A k \in 0..(m.acceptedPoints - 1) :
                    /\ SubSeq(parsed.positions, 3 * k + 1, 3 * k + 3)
                         = lasRecordPoint(buffer, lasSourceOf(buffer, m, k))
                    /\ SubSeq(parsed.colors, 3 * k + 1, 3 * k + 3)
                         = lasRecordColor(buffer, lasSourceOf(buffer, m, k))

\* C10 witness: a coloured result whose first point comes from a record other
\* than record 0 (record 0 was rejected) and that holds a second point.
C10_Witness ==
    /\ LasDone
    /\ parsed.ok
    /\ parsed.hasColors
    /\ parsed.metadata.acceptedPoints >= 2
    /\ lasSourceOf(buffer, parsed.metadata, 0) # 0
    /\ parsed.colors[1] # 0

(***************************************************************************)
(* Claims about the pose decoders (checked under SpecDecode).              *)
(***************************************************************************)

PoseTextDone == parsed.by = "buildPoseGroup" /\ decoder = "buildPoseGroup"
PoseLocDone == parsed.by = "buildPoseLocations"

\* The value at 0-based position j of the text, as parseFloat reads it.
textValue(j) == parseFloat(text[j + 1])

\* C14: buildPoseGroup on a text of T values returns no result when T < 13;
\* when floor(T / 13) is between 1 and MAX_POSES it returns exactly
\* floor(T / 13) markers, marker k built from values 2..13 of record k, and
\* the values of a trailing incomplete record are ignored.
C14_OneMarkerPerRecord ==
    PoseTextDone =>
      LET total == Len(text) \div poseValuesPerRecord
      IN  /\ Len(text) < poseValuesPerRecord => ~parsed.ok
          /\ (total >= 1 /\ total <= MAX_POSES) =>
               /\ parsed.ok
               /\ Len(parsed.children) = total
               /\ \A k \in 0..(total - 1) :
                    parsed.children[k + 1]
                      = [j \in 1..12 |-> textValue(k * poseValuesPerRecord + j)]

\* C14 witness: a text of two whole records and an incomplete third gave two
\* markers.
C14_Witness ==
    /\ PoseTextDone
    /\ Len(text) > 2 * poseValuesPerRecord
    /\ Len(text) < 3 * poseValuesPerRecord
    /\ parsed.ok
    /\ Len(parsed.children) = 2

\* C15 (as stated): buildPoseGroup never produces more than MAX_POSES
\* markers, from a text or from a buffer.
C15_WithinPoseBudget ==
    (parsed.by = "buildPoseGroup" /\ parsed.ok)
      => Len(parsed.children) <= MAX_POSES

\* C16 (as stated): buildPoseLocations never returns more than
\* MAX_POSE_LOC_POINTS points.
C16_WithinPoseLocBudget ==
    (PoseLocDone /\ parsed.ok)
      => Len(parsed.positions) <= 3 * MAX_POSE_LOC_POINTS

\* The records buildPoseLocations retains from a text of `total` records:
\* every step-th record, up to floor(total / step) of them.
poseLocRetained(total) ==
    LET step == Max(1, total \div MAX_POSE_LOC_POINTS)
    IN  { i \in 0..(total - 1) : i % step = 0 /\ i \div step < Max(1, total \div step) }

C11_PitchWithinLimit ==
    pitchRef >= -PITCH_LIMIT /\ pitchRef <= PITCH_LIMIT

\* C11 witness: a drag has driven the pitch onto the upper limit and a frame
\* has applied it to the camera.
C11_Witness ==
    /\ pointerRef.active
    /\ pitchRef = PITCH_LIMIT
    /\ cameraQuaternion = [by |-> "euler", pitch |-> PITCH_LIMIT, yaw |-> yawRef]

\* C13: with an object installed, four rotate(axis) calls in a row return the
\* bookkeeping of that axis to its value before them (0 when it was 0), and
\* after each of the four the object's bounding box has minimum y = 0.
C13_FourQuarterTurns ==
    object3d.installed =>
      \A axis \in Axes :
        \A r1 \in {rotateModel(object3d, rotationRef, axis)} :
        \A r2 \in {rotateModel(r1.object, r1.rotation, axis)} :
        \A r3 \in {rotateModel(r2.object, r2.rotation, axis)} :
        \A r4 \in {rotateModel(r3.object, r3.rotation, axis)} :
            /\ r4.rotation[axis] = rotationRef[axis]
            /\ Box3Of(r1.object).min[2] = 0
            /\ Box3Of(r2.object).min[2] = 0
            /\ Box3Of(r3.object).min[2] = 0
            /\ Box3Of(r4.object).min[2] = 0

\* C13 witness: an object that is not a single point has been turned once
\* about x and three times about y.
C13_Witness ==
    /\ object3d.installed
    /\ object3d.h # <<0, 0, 0>>
    /\ rotationRef.x = 90
    /\ rotationRef.y = 270
    /\ Box3Of(object3d).min[2] = 0

\* Offsets by which an object may stand away from where recenter puts it.
Displacements == {<<0, 0, 0>>, <<3, -2, 7>>}

\* C19: recenterModel changes neither the object's scale nor its
\* orientation, and a second recenter right after the first leaves the
\* position where the first put it.
C19_RecenterIdempotent ==
    object3d.installed =>
      \A d \in Displacements :
        LET o == [object3d EXCEPT !.position = VecAdd(object3d.position, d)]
            once == recenterModel(o)
            twice == recenterModel(once)
        IN  /\ once.scale = o.scale
            /\ once.rot = o.rot
            /\ twice.position = once.position
            /\ twice = once

\* C19 witness: the scale control changed the scale of a turned object, which
\* the scale effect recentred.
C19_Witness ==
    /\ object3d.installed
    /\ object3d.h # <<0, 0, 0>>
    /\ scaleMultiplier = 2
    /\ object3d.scale = 2 * baseScaleRef
    /\ rotationRef.z = 90
    /\ Box3Of(object3d).min[2] = 0

\* C18: reset() puts the camera at (5, 5, 5) looking at the origin, zeroes
\* the horizontal and the vertical velocity, clears the six movement flags
\* and zeroes the rotation bookkeeping of the three axes.
C18_ResetRestoresDefaults ==
    [][Reset =>
         /\ cameraPosition' = <<5000, 5000, 5000>>
         /\ forward(cameraQuaternion', cameraPosition')
              = normalize(VecSub(<<0, 0, 0>>, cameraPosition'))
         /\ velocityRef' = <<0, 0, 0>>
         /\ verticalVelocityRef' = 0
         /\ \A f \in DOMAIN movementRef' : movementRef'[f] = FALSE
         /\ DOMAIN movementRef' = {"forward", "backward", "left", "right", "up", "down"}
         /\ rotationRef' = [x |-> 0, y |-> 0, z |-> 0]]_vars

\* C18 witness: a state reset() can be called in, with the camera moved and
\* turned by a frame, both velocities non-zero, keys held and the x
\* bookkeeping at 90 degrees.
C18_Witness ==
    /\ mounted
    /\ cameraPosition # DEFAULT_POSITION
    /\ cameraQuaternion.by = "euler"
    /\ velocityRef # <<0, 0, 0>>
    /\ verticalVelocityRef # 0
    /\ movementRef.forward
    /\ movementRef.up
    /\ rotationRef.x = 90

\* The distance of a position from the origin is d up to one percent, the
\* room the integer square root and the rescaling need.
near(position, d) == Abs(VecLength(position) - d) * 100 <= d

\* C12: after every wheel event with a non-zero deltaY the camera's distance
\* from the origin lies in [MIN_ZOOM_DISTANCE, MAX_ZOOM_DISTANCE]; a large
\* zoom-in (deltaY = -500000, 1000 units forward) ends at MIN_ZOOM_DISTANCE
\* and a large zoom-out (deltaY = 500000) ends at MAX_ZOOM_DISTANCE.
C12_WheelClampsDistance ==
    [][\A deltaY \in WheelDeltas \ {0} :
         Wheel(deltaY) =>
           /\ VecLength(cameraPosition') * 100 >= MIN_ZOOM_DISTANCE * 99
           /\ VecLength(cameraPosition') * 100 <= MAX_ZOOM_DISTANCE * 101
           /\ deltaY = -500000 => near(cameraPosition', MIN_ZOOM_DISTANCE)
           /\ deltaY = 500000 => near(cameraPosition', MAX_ZOOM_DISTANCE)]_vars

\* C20: on each frame the horizontal velocity is blended toward its target
\* with factor min(ACCELERATION * dt, 1) while a movement direction is held
\* and with factor min(DECELERATION * dt, 1) while none is held; the
\* vertical velocity follows the same rule with the rise/descend input, and
\* the position is advanced by velocity * dt.
C20_BlendByHeldDirection ==
    [][\A dt \in FrameDeltas :
         Frame(dt) =>
           LET held == \/ movementRef.forward \/ movementRef.backward
                       \/ movementRef.left \/ movementRef.right
               rising == movementRef.up \/ movementRef.down
               alpha == Min((IF held THEN ACCELERATION ELSE DECELERATION) * dt, 1000)
               beta == Min((IF rising THEN ACCELERATION ELSE DECELERATION) * dt, 1000)
               target == targetVelocity(movementRef, yawRef)
               vertical == (IF movementRef.up THEN 1 ELSE 0)
                             - (IF movementRef.down THEN 1 ELSE 0)
           IN  /\ \A i \in 1..3 :
                    velocityRef'[i] = lerp(velocityRef[i], target[i], alpha)
               /\ verticalVelocityRef'
                    = lerp(verticalVelocityRef, vertical * MOVE_SPEED, beta)
               /\ cameraPosition'
                    = <<cameraPosition[1] + MulMilli(velocityRef'[1], dt),
                        cameraPosition[2] + MulMilli(velocityRef'[2], dt)
                          + MulMilli(verticalVelocityRef', dt),
                        cameraPosition[3] + MulMilli(velocityRef'[3], dt)>>]_vars

\* The leading word of the buffer counts records that fit in the buffer and
\* end less than one record before its end.
headerFits ==
    LET totalBytes == byteLength(buffer)
        candidate == getUint32(buffer, 0)
    IN  /\ totalBytes >= 4
        /\ candidate <= totalBytes \div binStride
        /\ 4 + candidate * binStride <= totalBytes
        /\ totalBytes - (4 + candidate * binStride) < binStride

\* C23: parsePointCloud takes the leading 4 bytes as a record count
\* (headerOffset = 4, declaredCount = the count) only when hasHeaderCount is
\* set, the buffer has at least 4 bytes and 4 + count * 24 is at most the
\* buffer's size and less than 24 bytes below it; in every other case
\* headerOffset = 0, declaredCount is null and the records are counted from
\* byte 0.
C23_HeaderOnlyWhenItFits ==
    (BinDone /\ parsed.ok) =>
      LET m == parsed.metadata
      IN  /\ m.headerOffset \in {0, 4}
          /\ m.headerOffset = 4 =>
               /\ hasHeaderCount
               /\ headerFits
               /\ m.declaredCount = getUint32(buffer, 0)
               /\ m.recordCount = Min(m.declaredCount,
                                      (byteLength(buffer) - 4) \div binStride)
          /\ ~(hasHeaderCount /\ headerFits) =>
               /\ m.headerOffset = 0
               /\ m.declaredCount = 0
               /\ m.recordCount = byteLength(buffer) \div binStride

\* C23 witness: a buffer was decoded with its leading word taken as the
\* count of two or more records, with bytes left after the last of them.
C23_Witness ==
    /\ BinDone
    /\ parsed.ok
    /\ hasHeaderCount
    /\ parsed.metadata.headerOffset = 4
    /\ parsed.metadata.declaredCount >= 2
    /\ byteLength(buffer) > 4 + parsed.metadata.declaredCount * binStride

\* The records parsePointCloud visits in its full pass that pass the check:
\* indices 0, step, 2 * step, ... below recordCount.
binKept(m) ==
    { i \in 0..(m.recordCount - 1) :
        i % m.downsampleStep = 0 /\ binRecordValid(i, m.usedIntegerMode) }

\* The record behind accepted point k (0-based): the kept record with k kept
\* records before it.
binSourceOf(m, k) ==
    CHOOSE i \in binKept(m) : Cardinality({j \in binKept(m) : j < i}) = k

\* C24: the points parsePointCloud returns are, in record order, the records
\* at indices 0, step, 2 * step, ... below recordCount that pass the
\* finiteness and magnitude check under the chosen interpretation, cut off
\* after floor(recordCount / step) points; a record that fails the check is
\* skipped, the decode goes on, and the record is not in the output.
C24_FullPassSkipsInvalid ==
    (BinDone /\ parsed.ok) =>
      LET m == parsed.metadata
      IN  /\ m.acceptedPoints
               = Min(Cardinality(binKept(m)), m.recordCount \div m.downsampleStep)
          /\ Len(parsed.positions) = 3 * m.acceptedPoints
          /\ \A k \in 0..(m.acceptedPoints - 1) :
               SubSeq(parsed.positions, 3 * k + 1, 3 * k + 3)
                 = binPoint(buffer, m.headerOffset + binSourceOf(m, k) * binStride,
                            m.usedIntegerMode)

\* C24 witness: a decode with a step above 1 that visited a record that
\* failed the check, skipped it and returned a record visited after it.
C24_Witness ==
    /\ BinDone
    /\ parsed.ok
    /\ parsed.metadata.downsampleStep >= 2
    /\ parsed.metadata.acceptedPoints >= 2
    /\ \E i \in 1..(parsed.metadata.recordCount - 1) :
         /\ i % parsed.metadata.downsampleStep = 0
         /\ ~binRecordValid(i, parsed.metadata.usedIntegerMode)
         /\ \E j \in binKept(parsed.metadata) : j > i
         /\ binSourceOf(parsed.metadata, parsed.metadata.acceptedPoints - 1) > i

\* The probe loop of parsePointCloud on the decoded buffer (lines 274-308).
binProbe(m) ==
    LET probeSamples == Min(PROBE_SAMPLES, m.recordCount)
        probeStride == Max(1, m.recordCount \div probeSamples)
    IN  [probeStride |-> probeStride,
         loop |-> probeLoop(buffer, m.headerOffset, m.recordCount, probeSamples,
                            probeStride, 0,
                            [floatValid |-> 0, intValid |-> 0, probeIterations |-> 0,
                             lastIndex |-> -1])]

\* C25 (as stated): the probe of parsePointCloud examines
\* min(PROBE_SAMPLES, recordCount) records, and the last record it examines
\* is within one probe stride of the last record of the buffer.
C25_ProbeSpansRecords ==
    (BinDone /\ parsed.ok) =>
      LET m == parsed.metadata
          probe == binProbe(m)
      IN  /\ probe.loop.probeIterations = Min(PROBE_SAMPLES, m.recordCount)
          /\ (m.recordCount - 1) - probe.loop.lastIndex <= probe.probeStride

\* The header of the buffer handed to parseLasPointCloud passed the checks
\* of lines 360-368.
lasHeaderAccepted ==
    /\ byteLength(buffer) >= LAS_MIN_HEADER
    /\ SubSeq(buffer, 1, 4) = LASF
    /\ getUint16(buffer, 105) # 0
    /\ byteLength(buffer) >= getUint32(buffer, 96) + getUint16(buffer, 105)

\* C26: parseLasPointCloud takes the extended point count at offset 247 only
\* when the legacy count at offset 107 is 0, the buffer has at least 255
\* bytes and the extended count is positive; a non-zero legacy count always
\* wins.  It walks min(pointCount, floor((length - offsetToPointData) /
\* stride)) records and returns no result when that is not positive.
C26_LasPointCount ==
    (LasDone /\ lasHeaderAccepted) =>
      LET legacy == getUint32(buffer, 107)
          useExtended == /\ legacy = 0
                         /\ byteLength(buffer) >= LAS_EXT_HEADER
                         /\ getBigUint64(buffer, 247) > 0
          pointCount == IF useExtended THEN getBigUint64(buffer, 247) ELSE legacy
          availableRecords ==
              (byteLength(buffer) - getUint32(buffer, 96)) \div getUint16(buffer, 105)
          walked == Min(pointCount, availableRecords)
      IN  /\ parsed.ok =>
               /\ parsed.metadata.declaredCount = pointCount
               /\ legacy # 0 => parsed.metadata.declaredCount = legacy
               /\ parsed.metadata.recordCount = walked
          /\ walked <= 0 => ~parsed.ok

\* C26 witness: a file of 255 header bytes with a legacy count of 0 and a
\* positive extended count was decoded with the extended count.
C26_Witness ==
    /\ LasDone
    /\ parsed.ok
    /\ getUint32(buffer, 107) = 0
    /\ getUint32(buffer, 96) = LAS_EXT_HEADER
    /\ parsed.metadata.declaredCount = getBigUint64(buffer, 247)
    /\ parsed.metadata.recordCount >= 2

\* C30 (as stated): in every reachable state with an object installed, after
\* any sequence of rotate(axis), scale changes and reset(), the object's
\* bounding box has minimum y = 0 and its centre has x = 0 and z = 0.
C30_RestsOnGroundCentred ==
    object3d.installed =>
      /\ Box3Of(object3d).min[2] = 0
      /\ Box3Of(object3d).center[1] = 0
      /\ Box3Of(object3d).center[3] = 0

(***************************************************************************)
(* Claims about installs, clears and the model transform                   *)
(***************************************************************************)

\* The largest extent of an object's box as the load produced it.
largestExtent(o) ==
    Max(Box3Of(o).size[1], Max(Box3Of(o).size[2], Box3Of(o).size[3]))

\* C28: after alignInitialModel(object) the object's box is centred on x and
\* z at 0 and its minimum y is 0, and the scale it stores is 18 divided by
\* the object's largest extent before scaling, or 18 when that extent is 0.
C28_AlignInitialModel ==
    [][\A id \in LoadIds, o \in InstallObjects :
         (Install(id, o) /\ ~loads[id].cancelled) =>
            \A a \in {alignInitialModel(o)} :
              /\ Box3Of(a.object).center[1] = 0
              /\ Box3Of(a.object).center[3] = 0
              /\ Box3Of(a.object).min[2] = 0
              /\ a.baseScale = IF largestExtent(o) = 0 THEN FIT_EXTENT
                               ELSE FIT_EXTENT \div largestExtent(o)
              /\ object3d' = a.object]_vars

\* C28 witness: an installed object whose geometry is off its origin stands
\* as alignInitialModel left it.
C28_Witness ==
    /\ modelRef # 0
    /\ object3d.installed
    /\ object3d.c # <<0, 0, 0>>
    /\ object3d.h # <<0, 0, 0>>
    /\ \E o \in InstallObjects : object3d = alignInitialModel(o).object

\* C21: whenever a new object is installed, the rotation bookkeeping of all
\* three axes is 0 and the object's scale is the fit-to-view scale
\* alignInitialModel computed for it, whatever was applied to the previous
\* object.
C21_InstallResetsTransform ==
    [][\A id \in LoadIds, o \in InstallObjects :
         (Install(id, o) /\ ~loads[id].cancelled) =>
            /\ rotationRef' = [x |-> 0, y |-> 0, z |-> 0]
            /\ object3d'.scale = alignInitialModel(o).baseScale]_vars

\* C29: after an object has been installed, changing the scale multiplier to
\* m sets that object's scale to baseScale * m, where baseScale is the
\* fit-to-view scale alignInitialModel computed for that object, also when
\* the install replaced another object.  The installed object's geometry
\* (c, h) identifies the loaded object alignInitialModel was applied to.
C29_ScaleIsBaseScaleTimesMultiplier ==
    [][\A m \in ScaleMultipliers :
         (ScaleChange(m) /\ modelRef # 0) =>
            \A o \in InstallObjects :
               (o.c = object3d.c /\ o.h = object3d.h) =>
                  object3d'.scale = alignInitialModel(o).baseScale * m]_vars

\* The CameraState: position, yaw, pitch, velocity, vertical velocity,
\* movement flags and pointer-drag state.
CameraState ==
    <<cameraPosition, yawRef, pitchRef, velocityRef, verticalVelocityRef,
      movementRef, pointerRef>>

C27_StaleUploadLeavesState ==
    pointCloud # NoPointCloud => pointCloud.upload = modelUrl

(***************************************************************************)
(* Further claims about the load effect                                    *)
(***************************************************************************)

\* C31: the last value delivered through onLoadingChange is true exactly
\* while the request of the load effect's current run is in flight: false
\* once it has completed or failed, or the scene was cleared or unmounted.
\* The completion of a cancelled request leaves that request's successor as
\* it was, so it cannot change the value.
C31_LoadingWhileLatestInFlight ==
    loading = (mounted /\ effectLoad # 0 /\ loads[effectLoad].status = "pending")

\* C31 witness: a cancelled request has ended while its successor is still
\* in flight, and loading is still reported.
C31_Witness ==
    /\ loading
    /\ effectLoad # 0
    /\ loads[effectLoad].status = "pending"
    /\ \E id \in LoadIds :
         /\ loads[id].cancelled
         /\ loads[id].status \in {"discarded", "failed", "empty"}

\* C32: no scene object is disposed more than once, and the active scene
\* object is never one that has been disposed.
C32_DisposedOnceNeverActive ==
    /\ \A id \in LoadIds : disposeCount[id] <= 1
    /\ modelRef # 0 => disposeCount[modelRef] = 0

\* C32 witness: after unmount, one object was disposed as the active object
\* and another as the result of a cancelled request, each once.
C32_Witness ==
    /\ ~mounted
    /\ \E a \in LoadIds, b \in LoadIds :
         /\ loads[a].status = "installed" /\ disposeCount[a] = 1
         /\ loads[b].status = "discarded" /\ disposeCount[b] = 1

(***************************************************************************)
(* Further claims about the decoders                                       *)
(***************************************************************************)

\* The records the probe of parsePointCloud examined (lines 280-308).
binProbed(m) ==
    LET probe == binProbe(m)
    IN  { j * probe.probeStride : j \in 0..(probe.loop.probeIterations - 1) }

\* C33: every record of every buffer is valid under the integer
\* interpretation, so probeIntHits is the number of records probed; the
\* integer interpretation is chosen exactly when a probed record is invalid
\* as floats; and in integer mode no record is rejected: acceptedPoints is
\* floor(recordCount / downsampleStep).
C33_IntegerInterpretationAlwaysValid ==
    BinDone =>
      /\ \A i \in 0..(binLayout.recordCount - 1) : binRecordValid(i, TRUE)
      /\ parsed.ok =>
           \A m \in {parsed.metadata} : \A probed \in {binProbed(m)} :
             /\ m.probeIntHits = Cardinality(probed)
             /\ m.usedIntegerMode = (\E i \in probed : ~binRecordValid(i, FALSE))
             /\ m.usedIntegerMode
                  => m.acceptedPoints = m.recordCount \div m.downsampleStep

\* C33 witness: a downsampled buffer with a probed record that is invalid as
\* floats and another that is valid, decoded in integer mode.
C33_Witness ==
    /\ BinDone
    /\ parsed.ok
    /\ parsed.metadata.usedIntegerMode
    /\ parsed.metadata.downsampleStep >= 2
    /\ parsed.metadata.probeFloatHits >= 1
    /\ parsed.metadata.probeFloatHits < parsed.metadata.probeIntHits
    /\ parsed.metadata.acceptedPoints
         = parsed.metadata.recordCount \div parsed.metadata.downsampleStep

\* A read of len bytes at byte offset off of the input buffer.
word(off) == <<off, 4>>

\* The three coordinate reads of the record at base.
xyzReads(base) == {word(base), word(base + 4), word(base + 8)}

\* The reads of the full pass of parsePointCloud from record i on, with w
\* points written so far (lines 314-340).
RECURSIVE fullPassReads(_, _, _, _, _, _, _, _)
fullPassReads(buf, headerOffset, recordCount, step, sampledCount, useInt, i, w) ==
    IF ~(i < recordCount) THEN {}
    ELSE LET base == headerOffset + i * binStride
             pt == binPoint(buf, base, useInt)
             here == xyzReads(base)
         IN  IF ~validPoint(pt[1], pt[2], pt[3])
             THEN here \cup fullPassReads(buf, headerOffset, recordCount, step,
                                          sampledCount, useInt, i + step, w)
             ELSE IF w + 1 >= sampledCount THEN here
             ELSE here \cup fullPassReads(buf, headerOffset, recordCount, step,
                                          sampledCount, useInt, i + step, w + 1)

\* Every read parsePointCloud makes of its buffer (lines 248-249, 280-287,
\* 314-318).
parsePointCloudReads(buf, hasHdr) ==
    LET totalBytes == byteLength(buf)
        headerRead == IF hasHdr /\ totalBytes >= 4 THEN {word(0)} ELSE {}
        hdr == readHeaderCount(buf, hasHdr)
        headerOffset == hdr.headerOffset
        availableBytes == totalBytes - headerOffset
        maxPossible == availableBytes \div binStride
        recordCount == IF hdr.declaredCount # 0 THEN Min(hdr.declaredCount, maxPossible)
                       ELSE maxPossible
        step == downsampleStep(recordCount)
        sampledCount == sampledCountOf(recordCount, step)
        probeSamples == Min(PROBE_SAMPLES, recordCount)
        probeStride == Max(1, recordCount \div probeSamples)
        probe == probeLoop(buf, headerOffset, recordCount, probeSamples, probeStride, 0,
                           [floatValid |-> 0, intValid |-> 0, probeIterations |-> 0,
                            lastIndex |-> -1])
        useInt == useIntOf(probe.intValid, probe.floatValid)
    IN  IF availableBytes < binStride \/ maxPossible <= 0 THEN headerRead
        ELSE headerRead
               \cup UNION { xyzReads(headerOffset + j * probeStride * binStride) :
                            j \in 0..(probe.probeIterations - 1) }
               \cup fullPassReads(buf, headerOffset, recordCount, step, sampledCount,
                                  useInt, 0, 0)

\* A record loop of parseLasPointCloud without the check of line 410 that
\* the coordinates lie inside the buffer.
RECURSIVE lasLoopReadsUnchecked(_, _, _, _, _, _, _, _, _)
lasLoopReadsUnchecked(buf, hdr, totalRecords, step, sampledCount, hasColor, colorOffset, i, w) ==
    IF ~(i < totalRecords) THEN {}
    ELSE LET base == hdr.offsetToData + i * hdr.stride
         IN  xyzReads(base)
               \cup lasLoopReadsUnchecked(buf, hdr, totalRecords, step, sampledCount,
                                          hasColor, colorOffset, i + step, w)

\* The reads of the record loop of parseLasPointCloud from record i on, with
\* w points written so far (lines 408-443).
RECURSIVE lasLoopReads(_, _, _, _, _, _, _, _, _)
lasLoopReads(buf, hdr, totalRecords, step, sampledCount, hasColor, colorOffset, i, w) ==
    IF ~(i < totalRecords) THEN {}
    ELSE LET base == hdr.offsetToData + i * hdr.stride
         IN  IF base + 12 > byteLength(buf) THEN {}
             ELSE LET x == lasCoord(getInt32(buf, base), hdr.scaleX, hdr.offsetX)
                      y == lasCoord(getInt32(buf, base + 4), hdr.scaleY, hdr.offsetY)
                      z == lasCoord(getInt32(buf, base + 8), hdr.scaleZ, hdr.offsetZ)
                      colorReads ==
                          IF hasColor /\ base + colorOffset + 6 <= byteLength(buf)
                          THEN {<<base + colorOffset, 2>>, <<base + colorOffset + 2, 2>>,
                                <<base + colorOffset + 4, 2>>}
                          ELSE {}
                  IN  IF ~validPoint(x, y, z)
                      THEN xyzReads(base)
                             \cup lasLoopReads(buf, hdr, totalRecords, step, sampledCount,
                                               hasColor, colorOffset, i + step, w)
                      ELSE IF w + 1 >= sampledCount THEN xyzReads(base) \cup colorReads
                      ELSE xyzReads(base) \cup colorReads
                             \cup lasLoopReads(buf, hdr, totalRecords, step, sampledCount,
                                               hasColor, colorOffset, i + step, w + 1)

\* Every read parseLasPointCloud makes of its buffer (lines 360-431).
parseLasPointCloudReads(buf) ==
    IF byteLength(buf) < LAS_MIN_HEADER THEN {}
    ELSE IF SubSeq(buf, 1, 4) # LASF THEN {word(0)}
    ELSE LET stride == getUint16(buf, 105)
             pointFormat == lasPointFormat(buf)
             offsetToData == getUint32(buf, 96)
             fieldReads == {word(0), <<105, 2>>, <<104, 1>>, word(96)}
         IN  IF lasHeaderRejected(buf, stride, offsetToData) THEN fieldReads
             ELSE LET pointCount == lasPointCount(buf)
                      countReads ==
                          {word(107)}
                            \cup (IF getUint32(buf, 107) = 0
                                     /\ byteLength(buf) >= LAS_EXT_HEADER
                                  THEN {<<247, 8>>} ELSE {})
                      hdr == [stride |-> stride, offsetToData |-> offsetToData,
                              scaleX |-> getFloat64(buf, 131),
                              scaleY |-> getFloat64(buf, 139),
                              scaleZ |-> getFloat64(buf, 147),
                              offsetX |-> getFloat64(buf, 155),
                              offsetY |-> getFloat64(buf, 163),
                              offsetZ |-> getFloat64(buf, 171)]
                      doubleReads == { <<131 + 8 * k, 8>> : k \in 0..5 }
                      availableRecords == (byteLength(buf) - offsetToData) \div stride
                      totalRecords == Min(pointCount, availableRecords)
                      step == downsampleStep(totalRecords)
                      sampledCount == sampledCountOf(totalRecords, step)
                      hasColor == pointFormat = 2 \/ pointFormat = 3
                      colorOffset == IF pointFormat = 3 THEN 28 ELSE 20
                  IN  IF pointCount <= 0 THEN fieldReads \cup countReads
                      ELSE IF totalRecords <= 0
                      THEN fieldReads \cup countReads \cup doubleReads
                      ELSE fieldReads \cup countReads \cup doubleReads
                             \cup lasLoopReads(buf, hdr, totalRecords, step, sampledCount,
                                               hasColor, colorOffset, 0, 0)

\* Every read the binary path of buildPoseGroup makes of its buffer (lines
\* 480-491).
poseBinaryReads(buf) ==
    LET total == byteLength(buf) \div poseStrideBytes
    IN  IF byteLength(buf) < poseStrideBytes \/ total <= 0 THEN {}
        ELSE { word(i * poseStrideBytes + j * 4) :
               i \in 0..(total - 1), j \in 0..(poseValuesPerRecord - 1) }

\* The reads of the decoder that was applied to the input.
decoderReads ==
    CASE decoder = "parsePointCloud" -> parsePointCloudReads(buffer, hasHeaderCount)
      [] decoder = "parseLasPointCloud" -> parseLasPointCloudReads(buffer)
      [] decoder = "buildPoseGroup(binary)" -> poseBinaryReads(buffer)
      [] OTHER -> {}

\* C34: every read of parsePointCloud, parseLasPointCloud and the binary
\* path of buildPoseGroup lies within [0, byteLength) of the input, and the
\* decoder ends with a result or with no result.
C34_ReadsInsideBuffer ==
    parsed.by # "none" =>
      /\ \A r \in decoderReads : r[1] >= 0 /\ r[1] + r[2] <= byteLength(buffer)
      /\ parsed.ok \in BOOLEAN

\* C34 witness: parseLasPointCloud stopped at a record whose coordinates
\* would end beyond the buffer, after reading the records before it.
C34_Witness ==
    /\ LasDone
    /\ parsed.ok
    /\ \E i \in 1..(parsed.metadata.recordCount - 1) :
         /\ parsed.metadata.headerOffset + i * getUint16(buffer, 105) + 12
              > byteLength(buffer)
         /\ i % parsed.metadata.downsampleStep = 0
         /\ parsed.metadata.acceptedPoints
              < parsed.metadata.recordCount \div parsed.metadata.downsampleStep

(***************************************************************************)
(* Further claims about the controls                                       *)
(***************************************************************************)

\* C35: after any sequence of keydown and keyup events, each movement flag
\* is true exactly when at least one of the keys bound to it is held.
C35_FlagsFollowHeldKeys ==
    /\ movementRef.forward = (keysHeld \cap {"KeyW", "ArrowUp"} # {})
    /\ movementRef.backward = (keysHeld \cap {"KeyS", "ArrowDown"} # {})
    /\ movementRef.left = (keysHeld \cap {"KeyA", "ArrowLeft"} # {})
    /\ movementRef.right = (keysHeld \cap {"KeyD", "ArrowRight"} # {})
    /\ movementRef.down = (keysHeld \cap {"ShiftLeft", "ShiftRight"} # {})
    /\ movementRef.up = ("Space" \in keysHeld)

\* C36: the drag is active exactly when a pointer id is recorded; yaw and
\* pitch change only on a pointer-move received while the drag is active; a
\* drag starts only on a button-0 pointer-down and ends on a button-0
\* pointer-up or on pointer-leave.
C36_DragStateAndLookChanges ==
    /\ [](pointerRef.active = (pointerRef.pointerId # 0))
    /\ [][/\ (yawRef' # yawRef \/ pitchRef' # pitchRef) =>
                /\ pointerRef.active
                /\ \E x \in ClientXs, y \in ClientYs : PointerMove(x, y)
          /\ (~pointerRef.active /\ pointerRef'.active) =>
                \E x \in ClientXs, y \in ClientYs : PointerDown(0, x, y)
          /\ (pointerRef.active /\ ~pointerRef'.active) =>
                PointerUp(0) \/ PointerLeave]_vars

\* C36 as amended: the drag is active exactly when a pointer id is
\* recorded; yaw and pitch change only on a pointer-move received while the
\* drag is active or when resetCamera runs (reset()); a drag starts only on
\* a button-0 pointer-down and ends on a button-0 pointer-up or on
\* pointer-leave.
C36_DragStateAndLookChangesOrReset ==
    /\ [](pointerRef.active = (pointerRef.pointerId # 0))
    /\ [][/\ (yawRef' # yawRef \/ pitchRef' # pitchRef) =>
                \/ Reset
                \/ /\ pointerRef.active
                   /\ \E x \in ClientXs, y \in ClientYs : PointerMove(x, y)
          /\ (~pointerRef.active /\ pointerRef'.active) =>
                \E x \in ClientXs, y \in ClientYs : PointerDown(0, x, y)
          /\ (pointerRef.active /\ ~pointerRef'.active) =>
                PointerUp(0) \/ PointerLeave]_vars

\* C36: a drag that turned the camera both ways has ended.
C36_Witness ==
    /\ ~pointerRef.active
    /\ pointerRef.pointerId = 0
    /\ pointerRef.lastX # 0
    /\ yawRef # RESET_YAW
    /\ pitchRef # RESET_PITCH

\* C37: after every frame tick the horizontal speed is at most MOVE_SPEED
\* and the absolute vertical velocity is at most MOVE_SPEED, whatever
\* movement flags are held (opposing keys, diagonals).
C37_SpeedAtMostMoveSpeed ==
    /\ velocityRef[1] * velocityRef[1] + velocityRef[3] * velocityRef[3]
         <= MOVE_SPEED * MOVE_SPEED
    /\ velocityRef[2] = 0
    /\ Abs(verticalVelocityRef) <= MOVE_SPEED

\* C37: two frames ran; an earlier one rose with up held alone, and the
\* latest ran with forward and backward held together, right held, and up
\* and down held together: the camera moves sideways and still rises, more
\* slowly.
C37_Witness ==
    /\ motions = 2
    /\ movementRef.forward /\ movementRef.backward /\ movementRef.right
    /\ ~movementRef.left
    /\ movementRef.up /\ movementRef.down
    /\ velocityRef[1] # 0 /\ velocityRef[3] # 0
    /\ 0 < verticalVelocityRef /\ verticalVelocityRef < MOVE_SPEED

\* C38: after alignInitialModel(object), for every object with a non-zero
\* extent, whatever scale of its own it was loaded with, the largest extent
\* of the object's bounding box is 18.
C38_LargestExtentIsTargetSpan ==
    [][\A id \in LoadIds, o \in ScaledObjects :
         (Install(id, o) /\ ~loads[id].cancelled /\ largestExtent(o) # 0) =>
            largestExtent(alignInitialModel(o).object) = FIT_EXTENT]_vars

====
